---- MODULE Spec2Model ----
(***************************************************************************)
(* G-code Combiner: archive extraction (utils/fileProcessor.ts), the App   *)
(* state machine (upload batch, work queue, combine & download) and the    *)
(* FileList / DropZone event handlers.                                     *)
(*                                                                         *)
(* Strings are sequences of one-character strings, so that suffix tests,   *)
(* number formatting, splitting and sorting are computed as the code       *)
(* computes them.  A fixed literal piece of a message is kept as one token.*)
(***************************************************************************)
EXTENDS Integers, Sequences, FiniteSets, TLC

\* null / undefined of a string-valued expression (no character is "null").
NULL == <<"null">>

(* ------------------------------------------------------------------ *)
(* Bounds of the model                                                 *)
(* ------------------------------------------------------------------ *)
MaxEntries == 3
MaxBatch == 2
MaxQueue == 2
BandWidth == 2
NumIds == 2
MaxTasks == 2
MaxPrints == 4
MaxSeconds == 36610
MaxLines == 3
MaxTimed == 2
MaxDrag == 3

(* ------------------------------------------------------------------ *)
(* Strings                                                             *)
(* ------------------------------------------------------------------ *)
Range(s) == {s[k] : k \in DOMAIN s}

DigitChars == <<"0", "1", "2", "3", "4", "5", "6", "7", "8", "9">>

IsDigit(c) == \E d \in 1..10 : DigitChars[d] = c

DigitValue(c) == (CHOOSE d \in 1..10 : DigitChars[d] = c) - 1

\* `${n}` for a non-negative integer n: its decimal digits.
RECURSIVE ToStr(_)
ToStr(n) ==
    IF n < 10 THEN <<DigitChars[n + 1]>>
    ELSE ToStr(n \div 10) \o <<DigitChars[(n % 10) + 1]>>

\* String.prototype.endsWith
EndsWith(s, suffix) ==
    /\ Len(suffix) <= Len(s)
    /\ SubSeq(s, Len(s) - Len(suffix) + 1, Len(s)) = suffix

\* UTF-16 code units of the characters the model uses.
CharCode(c) ==
    CASE c = "\n" -> 10
      [] c = " " -> 32
      [] c = "\"" -> 34
      [] c = "." -> 46
      [] c = "/" -> 47
      [] IsDigit(c) -> 48 + DigitValue(c)
      [] c = ";" -> 59
      [] c = "A" -> 65
      [] c = "B" -> 66
      [] c = "G" -> 71
      [] c = "M" -> 77
      [] c = "_" -> 95
      [] c = "a" -> 97
      [] c = "b" -> 98
      [] c = "c" -> 99
      [] c = "d" -> 100
      [] c = "e" -> 101
      [] c = "f" -> 102
      [] c = "g" -> 103
      [] c = "l" -> 108
      [] c = "m" -> 109
      [] c = "o" -> 111
      [] c = "p" -> 112
      [] c = "t" -> 116
      [] c = "x" -> 120

\* a < b in the order of Array.prototype.sort without a comparator:
\* code unit by code unit, a proper prefix first.
RECURSIVE StrLess(_, _)
StrLess(a, b) ==
    IF b = <<>> THEN FALSE
    ELSE IF a = <<>> THEN TRUE
    ELSE IF CharCode(a[1]) # CharCode(b[1]) THEN CharCode(a[1]) < CharCode(b[1])
    ELSE StrLess(Tail(a), Tail(b))

\* Insert x into the sorted sequence s, after the elements not greater than x.
RECURSIVE InsertSorted(_, _)
InsertSorted(x, s) ==
    IF s = <<>> THEN <<x>>
    ELSE IF StrLess(x, s[1]) THEN <<x>> \o s
    ELSE <<s[1]>> \o InsertSorted(x, Tail(s))

\* Array.prototype.sort() of an array of strings.
RECURSIVE SortStrings(_)
SortStrings(s) ==
    IF s = <<>> THEN <<>>
    ELSE InsertSorted(s[Len(s)], SortStrings(SubSeq(s, 1, Len(s) - 1)))

\* gcodeContent.split('\n').length
SplitLineCount(text) == Cardinality({k \in DOMAIN text : text[k] = "\n"}) + 1

\* String.prototype.trim
IsSpace(c) == c \in {" ", "\t", "\n", "\r"}

RECURSIVE TrimStart(_)
TrimStart(s) == IF s # <<>> /\ IsSpace(s[1]) THEN TrimStart(Tail(s)) ELSE s

RECURSIVE TrimEnd(_)
TrimEnd(s) ==
    IF s # <<>> /\ IsSpace(s[Len(s)]) THEN TrimEnd(SubSeq(s, 1, Len(s) - 1)) ELSE s

Trim(s) == TrimEnd(TrimStart(s))

\* Number.parseInt(s, 10) of a string of decimal digits.
RECURSIVE DigitsValue(_)
DigitsValue(s) ==
    IF s = <<>> THEN 0
    ELSE 10 * DigitsValue(SubSeq(s, 1, Len(s) - 1)) + DigitValue(s[Len(s)])

\* /^\d+$/.test(s)
AllDigits(s) == s # <<>> /\ \A k \in DOMAIN s : IsDigit(s[k])

(* ------------------------------------------------------------------ *)
(* Regular expressions of parseEstimatedTime, matched by backtracking  *)
(* ------------------------------------------------------------------ *)
UpperChars == <<"A", "B", "C", "D", "E", "F", "G", "H", "I", "J", "K", "L", "M",
                "N", "O", "P", "Q", "R", "S", "T", "U", "V", "W", "X", "Y", "Z">>
LowerChars == <<"a", "b", "c", "d", "e", "f", "g", "h", "i", "j", "k", "l", "m",
                "n", "o", "p", "q", "r", "s", "t", "u", "v", "w", "x", "y", "z">>

\* Case folding of the i flag.
Fold(c) ==
    IF \E k \in 1..26 : UpperChars[k] = c
    THEN LowerChars[CHOOSE k \in 1..26 : UpperChars[k] = c]
    ELSE c

\* Character classes: \s, . (no line terminator), \d, [_:], [:\s]
InClass(cls, c) ==
    CASE cls = "space" -> IsSpace(c)
      [] cls = "dot" -> c \notin {"\n", "\r"}
      [] cls = "digit" -> IsDigit(c)
      [] cls = "sep" -> c \in {"_", ":"}
      [] cls = "colonspace" -> c = ":" \/ IsSpace(c)

Fail == [ok |-> FALSE]

\* The literal lit occurs in text at pos, ignoring case.
LitAt(text, pos, lit) ==
    /\ pos + Len(lit) - 1 <= Len(text)
    /\ \A k \in 1..Len(lit) : Fold(text[pos + k - 1]) = Fold(lit[k])

\* Number of consecutive characters of class cls in text from pos, at most max.
RECURSIVE RunLength(_, _, _, _)
RunLength(text, pos, cls, max) ==
    IF max = 0 \/ pos > Len(text) \/ ~InClass(cls, text[pos]) THEN 0
    ELSE 1 + RunLength(text, pos + 1, cls, max - 1)

\* Match atoms[i..] of a pattern against text from pos.  An atom is a literal,
\* a repetition of a class (greedy or lazy, between min and max times, possibly
\* the capture group), or the end-of-line group (?:\n|$).  The result is Fail
\* or the capture of the first match in backtracking order.
RECURSIVE MatchFrom(_, _, _, _, _)
RECURSIVE TryCounts(_, _, _, _, _, _, _)
MatchFrom(atoms, i, text, pos, cap) ==
    IF i > Len(atoms) THEN [ok |-> TRUE, cap |-> cap]
    ELSE LET a == atoms[i] IN
      CASE a.t = "lit" ->
             IF LitAt(text, pos, a.s)
             THEN MatchFrom(atoms, i + 1, text, pos + Len(a.s), cap)
             ELSE Fail
        [] a.t = "rep" ->
             LET run == RunLength(text, pos, a.cls, a.max) IN
             IF run < a.min THEN Fail
             ELSE TryCounts(atoms, i, text, pos, cap,
                            IF a.greedy THEN run ELSE a.min, run)
        [] a.t = "eol" ->
             IF pos > Len(text) THEN MatchFrom(atoms, i + 1, text, pos, cap)
             ELSE IF text[pos] = "\n"
                  THEN MatchFrom(atoms, i + 1, text, pos + 1, cap)
                  ELSE Fail

\* Try the repetition atoms[i] with n characters, then the next count in
\* backtracking order: fewer for a greedy repetition, more for a lazy one.
TryCounts(atoms, i, text, pos, cap, n, run) ==
    LET a == atoms[i]
        cap2 == IF a.cap THEN SubSeq(text, pos, pos + n - 1) ELSE cap
        r == MatchFrom(atoms, i + 1, text, pos + n, cap2)
    IN  IF r.ok THEN r
        ELSE IF a.greedy
             THEN IF n > a.min THEN TryCounts(atoms, i, text, pos, cap, n - 1, run)
                  ELSE Fail
             ELSE IF n < run THEN TryCounts(atoms, i, text, pos, cap, n + 1, run)
                  ELSE Fail

\* String.prototype.match with a non-global pattern: the leftmost match.
RECURSIVE MatchAt(_, _, _)
MatchAt(atoms, text, start) ==
    IF start > Len(text) + 1 THEN Fail
    ELSE LET r == MatchFrom(atoms, 1, text, start, <<>>) IN
         IF r.ok THEN r ELSE MatchAt(atoms, text, start + 1)

RegexMatch(atoms, text) == MatchAt(atoms, text, 1)

(* ------------------------------------------------------------------ *)
(* utils/fileProcessor.ts                                              *)
(* ------------------------------------------------------------------ *)
Rep(cls, greedy, min, max, cap) ==
    [t |-> "rep", cls |-> cls, greedy |-> greedy, min |-> min, max |-> max, cap |-> cap]

Lit(s) == [t |-> "lit", s |-> s]

\* /;\s*estimated printing time.*?=\s*(.+?)(?:\n|$)/i
\* /;\s*TIME[_:]?\s*(\d+)/i
\* /;\s*total estimated time[:\s]*(.+?)(?:\n|$)/i
timePatterns ==
    << << Lit(<<";">>), Rep("space", TRUE, 0, -1, FALSE),
          Lit(<<"e", "s", "t", "i", "m", "a", "t", "e", "d", " ", "p", "r", "i", "n", "t", "i", "n", "g",
              " ", "t", "i", "m", "e">>),
          Rep("dot", FALSE, 0, -1, FALSE), Lit(<<"=">>),
          Rep("space", TRUE, 0, -1, FALSE),
          Rep("dot", FALSE, 1, -1, TRUE), [t |-> "eol"] >>,
       << Lit(<<";">>), Rep("space", TRUE, 0, -1, FALSE),
          Lit(<<"T", "I", "M", "E">>),
          Rep("sep", TRUE, 0, 1, FALSE),
          Rep("space", TRUE, 0, -1, FALSE),
          Rep("digit", TRUE, 1, -1, TRUE) >>,
       << Lit(<<";">>), Rep("space", TRUE, 0, -1, FALSE),
          Lit(<<"t", "o", "t", "a", "l", " ", "e", "s", "t", "i", "m", "a", "t", "e", "d", " ", "t", "i", "m", "e">>),
          Rep("colonspace", TRUE, 0, -1, FALSE),
          Rep("dot", FALSE, 1, -1, TRUE), [t |-> "eol"] >> >>

\* A format that shows the three components whatever their value.
formatSecondsAllParts(totalSeconds) ==
    ToStr(totalSeconds \div 3600) \o <<"h", " ">>
        \o ToStr((totalSeconds % 3600) \div 60) \o <<"m", " ">>
        \o ToStr(totalSeconds % 60) \o <<"s">>

formatSeconds(totalSeconds) ==
    LET hours == totalSeconds \div 3600
        minutes == (totalSeconds % 3600) \div 60
        seconds == totalSeconds % 60
        p1 == IF hours > 0 THEN <<ToStr(hours) \o <<"h">>>> ELSE <<>>
        p2 == IF minutes > 0 THEN Append(p1, ToStr(minutes) \o <<"m">>) ELSE p1
        parts == IF seconds > 0 \/ Len(p2) = 0
                 THEN Append(p2, ToStr(seconds) \o <<"s">>) ELSE p2
    IN  \* parts.join(' ')
        IF Len(parts) = 1 THEN parts[1]
        ELSE IF Len(parts) = 2 THEN parts[1] \o <<" ">> \o parts[2]
        ELSE parts[1] \o <<" ">> \o parts[2] \o <<" ">> \o parts[3]

\* A loop that tries the patterns from the last to the first.
RECURSIVE FirstPatternReversed(_, _)
FirstPatternReversed(gcode, k) ==
    IF k > Len(timePatterns) THEN NULL
    ELSE LET match == RegexMatch(timePatterns[Len(timePatterns) + 1 - k], gcode) IN
         IF match.ok
         THEN LET value == Trim(match.cap) IN
              IF AllDigits(value) THEN formatSeconds(DigitsValue(value)) ELSE value
         ELSE FirstPatternReversed(gcode, k + 1)

\* A loop that returns every captured value as it is, numbers included.
RECURSIVE FirstPatternUnformatted(_, _)
FirstPatternUnformatted(gcode, k) ==
    IF k > Len(timePatterns) THEN NULL
    ELSE LET match == RegexMatch(timePatterns[k], gcode) IN
         IF match.ok
         THEN Trim(match.cap)
         ELSE FirstPatternUnformatted(gcode, k + 1)

RECURSIVE FirstPattern(_, _)
FirstPattern(gcode, k) ==
    IF k > Len(timePatterns) THEN NULL
    ELSE LET match == RegexMatch(timePatterns[k], gcode) IN
         IF match.ok
         THEN LET value == Trim(match.cap) IN
              IF AllDigits(value) THEN formatSeconds(DigitsValue(value)) ELSE value
         ELSE FirstPattern(gcode, k + 1)

parseEstimatedTime(gcode) == FirstPattern(gcode, 1)

\* JavaScript truthiness of a string | null | undefined value.
Truthy(v) == v # NULL /\ v # <<>>

\* /(\d+)\s*h/i, /(\d+)\s*m/i, /(\d+)\s*s/i
unitPattern(unit) ==
    <<Rep("digit", TRUE, 1, -1, TRUE), Rep("space", TRUE, 0, -1, FALSE), Lit(<<unit>>)>>

\* Number.parseInt(match[1], 10) of the unit's match, 0 when there is none.
UnitCount(timeStr, unit) ==
    LET match == RegexMatch(unitPattern(unit), timeStr) IN
    IF match.ok THEN DigitsValue(match.cap) ELSE 0

\* A parser that forgets the seconds component.
parseTimeToSecondsNoSeconds(timeStr) ==
    IF AllDigits(Trim(timeStr)) THEN DigitsValue(Trim(timeStr))
    ELSE UnitCount(timeStr, "h") * 3600 + UnitCount(timeStr, "m") * 60

parseTimeToSeconds(timeStr) ==
    IF AllDigits(Trim(timeStr)) THEN DigitsValue(Trim(timeStr))
    ELSE UnitCount(timeStr, "h") * 3600 + UnitCount(timeStr, "m") * 60
         + UnitCount(timeStr, "s")

\* A loop that adds each file's seconds once, whatever its copy count.
RECURSIVE TotalTimeLoopOnce(_, _, _)
TotalTimeLoopOnce(fs, hasAnyTime, totalSeconds) ==
    IF fs = <<>> THEN [hasAnyTime |-> hasAnyTime, totalSeconds |-> totalSeconds]
    ELSE IF Truthy(fs[1].estimatedTime)
    THEN TotalTimeLoopOnce(Tail(fs), TRUE,
                           totalSeconds + parseTimeToSeconds(fs[1].estimatedTime))
    ELSE TotalTimeLoopOnce(Tail(fs), hasAnyTime, totalSeconds)

\* The loop of calculateTotalTime over fs: [hasAnyTime, totalSeconds].
RECURSIVE TotalTimeLoop(_, _, _)
TotalTimeLoop(fs, hasAnyTime, totalSeconds) ==
    IF fs = <<>> THEN [hasAnyTime |-> hasAnyTime, totalSeconds |-> totalSeconds]
    ELSE IF Truthy(fs[1].estimatedTime)
    THEN TotalTimeLoop(Tail(fs), TRUE,
                       totalSeconds + parseTimeToSeconds(fs[1].estimatedTime) * fs[1].copies)
    ELSE TotalTimeLoop(Tail(fs), hasAnyTime, totalSeconds)

calculateTotalTime(fs) ==
    LET r == TotalTimeLoop(fs, FALSE, 0) IN
    IF ~r.hasAnyTime THEN NULL ELSE formatSeconds(r.totalSeconds)

\* `Metadata/plate_${plateNum}.gcode`
gcodePath(plateNum) ==
    <<"M", "e", "t", "a", "d", "a", "t", "a", "/", "p", "l", "a", "t", "e", "_">>
    \o ToStr(plateNum) \o <<".", "g", "c", "o", "d", "e">>

\* A File is [name, readable, bytes]; bytes are [isZip, entries], entries being
\* the archive's members in directory order, each [name, dir, content, corrupt]
\* (corrupt: the member's compressed data cannot be decoded).
\* JSZip.loadAsync(arrayBuffer): the keys of zip.files in directory order.
ObjectKeys(zip) == [k \in DOMAIN zip |-> zip[k].name]

\* zip.files[name]
ZipEntry(zip, name) == zip[CHOOSE k \in DOMAIN zip : zip[k].name = name]

\* zip.file(name): the member of that name unless it is a directory, else null.
HasFile(zip, name) == \E k \in DOMAIN zip : zip[k].name = name /\ ~zip[k].dir

ParsedGCodeInfo(gcodeContent, plateNumber) ==
    [gcode |-> gcodeContent,
     lineCount |-> SplitLineCount(gcodeContent),
     estimatedTime |-> parseEstimatedTime(gcodeContent),
     plateNumber |-> plateNumber]

FileProcessingError(message) ==
    [tag |-> "throw", name |-> "FileProcessingError", message |-> message]

\* The rejection of gcodeFile.async('string') for a member that cannot be decoded.
DecodeError ==
    [tag |-> "throw", name |-> "Error", message |-> <<"<decompression failed>">>]

\* A message that does not name the file.
InvalidArchiveMessageAnonymous(fileName) ==
    <<"The file is not a valid ZIP archive. Make sure you're uploading a .gcode.3mf file.">>

InvalidArchiveMessage(fileName) ==
    <<"\"">> \o fileName \o
    <<"\" is not a valid ZIP archive. Make sure you're uploading a .gcode.3mf file.">>

NoGCodeMessage(fileName) ==
    <<"\"">> \o fileName \o
    <<"\" doesn't contain any G-code. Make sure you exported it as \"All plates sliced file\" or \"Plate sliced file\" from Bambu Studio.">>

NumPlateSlots == 16

\* A plate loop that stops before the last slot (plateNum < 16).
RECURSIVE PlateLoopStopsEarly(_, _, _)
PlateLoopStopsEarly(zip, plateNum, plates) ==
    IF plateNum >= NumPlateSlots THEN [threw |-> FALSE, plates |-> plates]
    ELSE IF HasFile(zip, gcodePath(plateNum))
    THEN LET gcodeFile == ZipEntry(zip, gcodePath(plateNum)) IN
         IF gcodeFile.corrupt THEN [threw |-> TRUE, plates |-> plates]
         ELSE PlateLoopStopsEarly(zip, plateNum + 1,
                        Append(plates, ParsedGCodeInfo(gcodeFile.content, plateNum)))
    ELSE PlateLoopStopsEarly(zip, plateNum + 1, plates)

\* for (plateNum = 1; plateNum <= 16; plateNum++): the plates pushed from
\* plateNum on, after those in plates; threw when a member fails to decode.
RECURSIVE PlateLoop(_, _, _)
PlateLoop(zip, plateNum, plates) ==
    IF plateNum > NumPlateSlots THEN [threw |-> FALSE, plates |-> plates]
    ELSE IF HasFile(zip, gcodePath(plateNum))
    THEN LET gcodeFile == ZipEntry(zip, gcodePath(plateNum)) IN
         IF gcodeFile.corrupt THEN [threw |-> TRUE, plates |-> plates]
         ELSE PlateLoop(zip, plateNum + 1,
                        Append(plates, ParsedGCodeInfo(gcodeFile.content, plateNum)))
    ELSE PlateLoop(zip, plateNum + 1, plates)

\* allFiles.filter((name) => name.endsWith('.gcode') && !zip.files[name].dir)
RECURSIVE FilterGcode(_, _)
FilterGcode(zip, names) ==
    IF names = <<>> THEN <<>>
    ELSE IF EndsWith(names[1], <<".", "g", "c", "o", "d", "e">>)
            /\ ~ZipEntry(zip, names[1]).dir
    THEN <<names[1]>> \o FilterGcode(zip, Tail(names))
    ELSE FilterGcode(zip, Tail(names))

gcodeFilesOf(zip) == SortStrings(FilterGcode(zip, ObjectKeys(zip)))

\* for (i = 0; i < gcodeFiles.length; i++): i is the 0-based index of the code.
RECURSIVE FallbackLoop(_, _, _, _)
FallbackLoop(zip, gcodeFiles, i, plates) ==
    IF i >= Len(gcodeFiles) THEN [threw |-> FALSE, plates |-> plates]
    ELSE LET entry == ZipEntry(zip, gcodeFiles[i + 1]) IN
         IF entry.corrupt THEN [threw |-> TRUE, plates |-> plates]
         ELSE LET gcodeContent == entry.content IN
              IF Truthy(gcodeContent)
              THEN FallbackLoop(zip, gcodeFiles, i + 1,
                                Append(plates, ParsedGCodeInfo(gcodeContent, i + 1)))
              ELSE FallbackLoop(zip, gcodeFiles, i + 1, plates)

extractAllPlatesFromZip(file) ==
    IF ~file.readable \/ ~file.bytes.isZip
    THEN FileProcessingError(InvalidArchiveMessage(file.name))
    ELSE LET zip == file.bytes.entries
             standard == PlateLoop(zip, 1, <<>>)
         IN  IF standard.threw THEN DecodeError
             ELSE LET found ==
                          IF Len(standard.plates) = 0
                          THEN FallbackLoop(zip, gcodeFilesOf(zip), 0, <<>>)
                          ELSE standard
                  IN  IF found.threw THEN DecodeError
                      ELSE IF Len(found.plates) = 0
                      THEN FileProcessingError(NoGCodeMessage(file.name))
                      ELSE [tag |-> "ok",
                            plates |-> found.plates,
                            originalZip |-> file.bytes,
                            fileName |-> file.name]

\* generateId(): `${Date.now()}-${Math.random()...}`; two calls may return the
\* same string, so an id is any element of a small set.
Ids == 1..NumIds

\* The literal " \u2014 Plate " of the display name, as one token.
EmDashPlate == <<" (U+2014) Plate ">>

\* A map that names every file after the upload alone.
GCodeFilesPlainNames(extracted, ids) ==
    [k \in DOMAIN extracted.plates |->
        LET plate == extracted.plates[k] IN
        [id |-> ids[k],
         fileName |-> extracted.fileName,
         displayName |-> extracted.fileName,
         gcode |-> plate.gcode,
         originalZip |-> extracted.originalZip,
         lineCount |-> plate.lineCount,
         estimatedTime |-> plate.estimatedTime,
         copies |-> 1,
         plateNumber |-> plate.plateNumber,
         sourceFile |-> extracted.fileName]]

\* plates.map(...) of processUploadedFile with the given ids, one per plate.
GCodeFiles(extracted, ids) ==
    LET isMultiPlate == Len(extracted.plates) > 1 IN
    [k \in DOMAIN extracted.plates |->
        LET plate == extracted.plates[k] IN
        [id |-> ids[k],
         fileName |-> extracted.fileName,
         displayName |-> IF isMultiPlate
                         THEN extracted.fileName \o EmDashPlate
                              \o ToStr(plate.plateNumber)
                         ELSE extracted.fileName,
         gcode |-> plate.gcode,
         originalZip |-> extracted.originalZip,
         lineCount |-> plate.lineCount,
         estimatedTime |-> plate.estimatedTime,
         copies |-> 1,
         plateNumber |-> plate.plateNumber,
         sourceFile |-> extracted.fileName]]

\* The possible outcomes of processUploadedFile(file): the rejection of
\* extractAllPlatesFromZip, or the mapped plates for some choice of ids.
processUploadedFile(file) ==
    LET extracted == extractAllPlatesFromZip(file) IN
    IF extracted.tag = "throw" THEN {extracted}
    ELSE {[tag |-> "ok", files |-> GCodeFiles(extracted, ids)] :
            ids \in [DOMAIN extracted.plates -> Ids]}

(* ------------------------------------------------------------------ *)
(* Input universe of the extraction specification                      *)
(* ------------------------------------------------------------------ *)
DirName == <<"M", "e", "t", "a", "d", "a", "t", "a", "/">>
AGcodeName == <<"a", ".", "g", "c", "o", "d", "e">>

\* Member names: conventional plates 1, 2 and 16, plate 17 (outside the
\* convention), a plain .gcode member, and a directory.
FileMemberNames == <<gcodePath(1), gcodePath(2), gcodePath(16), gcodePath(17), AGcodeName>>

\* A distinct payload for each member name.
PayloadOf(k) ==
    CASE k = 1 -> <<"G", "1">>
      [] k = 2 -> <<"G", "2", "\n">>
      [] k = 3 -> <<"G", "1", "\n", "G", "6">>
      [] k = 4 -> <<"G", "7", "\n", "\n">>
      [] k = 5 -> <<"G", "a">>

EntryUniverse ==
    {[name |-> DirName, dir |-> TRUE, content |-> <<>>, corrupt |-> FALSE]}
    \cup {[name |-> FileMemberNames[k], dir |-> FALSE, content |-> c, corrupt |-> FALSE] :
            k \in DOMAIN FileMemberNames, c \in {<<>>}}
    \cup {[name |-> FileMemberNames[k], dir |-> FALSE, content |-> PayloadOf(k), corrupt |-> b] :
            k \in DOMAIN FileMemberNames, b \in BOOLEAN}

DistinctNames(zip) == \A i, j \in DOMAIN zip : zip[i].name = zip[j].name => i = j

ArchiveUniverse ==
    {zip \in UNION {[1..n -> EntryUniverse] : n \in 0..MaxEntries} : DistinctNames(zip)}

NotZipBytes == [isZip |-> FALSE, entries |-> <<>>]

UploadNames == {<<"a", ".", "3", "m", "f">>, <<"b", ".", "g", "c", "o", "d", "e", ".", "3", "m", "f">>}

FileUniverse ==
    {[name |-> n, readable |-> TRUE, bytes |-> [isZip |-> TRUE, entries |-> zip]] :
        n \in UploadNames, zip \in ArchiveUniverse}
    \cup {[name |-> n, readable |-> r, bytes |-> NotZipBytes] :
        n \in UploadNames, r \in BOOLEAN}

(* ------------------------------------------------------------------ *)
(* utils/gcodeCombiner.ts (not among the sources: from its contract)   *)
(* ------------------------------------------------------------------ *)
\* totalPrints = files.reduce((sum, f) => sum + f.copies, 0)
RECURSIVE TotalPrints(_)
TotalPrints(fs) == IF fs = <<>> THEN 0 ELSE fs[1].copies + TotalPrints(Tail(fs))

\* The delimiter comment line before print n of m: copy `copy` of file f.
Delimiter(f, copy, n, m) ==
    <<";", " Print ">> \o ToStr(n) \o <<" of ">> \o ToStr(m) \o <<" : ">>
    \o f.sourceFile \o <<" plate ">> \o ToStr(f.plateNumber)
    \o <<" copy ">> \o ToStr(copy) \o <<"\n">>

\* A combiner that emits every file once, whatever its copy count.
RECURSIVE CombineFromOnce(_, _, _, _, _)
CombineFromOnce(fs, k, copy, done, m) ==
    IF k > Len(fs) THEN <<>>
    ELSE Delimiter(fs[k], 1, done + 1, m) \o fs[k].gcode \o <<"\n">>
         \o CombineFromOnce(fs, k + 1, 1, done + 1, m)

\* The segments of fs[k..], copy `copy` of fs[k] first; done prints so far.
RECURSIVE CombineFrom(_, _, _, _, _)
CombineFrom(fs, k, copy, done, m) ==
    IF k > Len(fs) THEN <<>>
    ELSE IF copy > fs[k].copies THEN CombineFrom(fs, k + 1, 1, done, m)
    ELSE Delimiter(fs[k], copy, done + 1, m) \o fs[k].gcode \o <<"\n">>
         \o CombineFrom(fs, k, copy + 1, done + 1, m)

combineGCode(fs) == CombineFrom(fs, 1, 1, 0, TotalPrints(fs))

\* The name of the template's payload member: the member its plate was read from.
PayloadMember(f) ==
    LET zip == f.originalZip.entries IN
    IF \E n \in 1..NumPlateSlots : HasFile(zip, gcodePath(n))
    THEN gcodePath(f.plateNumber)
    ELSE gcodeFilesOf(zip)[f.plateNumber]

\* A repackager that takes the archive of the last file as the template.
createCombinedZipLastTemplate(fs, combinedGCode) ==
    LET last == fs[Len(fs)]
        template == last.originalZip
    IN  [isZip |-> TRUE,
         entries |-> [k \in DOMAIN template.entries |->
                        IF template.entries[k].name = PayloadMember(last)
                        THEN [template.entries[k] EXCEPT !.content = combinedGCode]
                        ELSE template.entries[k]]]

\* The archive createCombinedZip resolves to: the template, files[0]'s archive,
\* with the payload member's content replaced by the combined text.
createCombinedZip(fs, combinedGCode) ==
    LET template == fs[1].originalZip IN
    [isZip |-> TRUE,
     entries |-> [k \in DOMAIN template.entries |->
                    IF template.entries[k].name = PayloadMember(fs[1])
                    THEN [template.entries[k] EXCEPT !.content = combinedGCode]
                    ELSE template.entries[k]]]

RepackageError == [tag |-> "throw", name |-> "Error", message |-> <<"<repackage failed>">>]

(* ------------------------------------------------------------------ *)
(* Input universe of the application specification                     *)
(* ------------------------------------------------------------------ *)
Member(name, content, corrupt) ==
    [name |-> name, dir |-> FALSE, content |-> content, corrupt |-> corrupt]

DirMember == [name |-> DirName, dir |-> TRUE, content |-> <<>>, corrupt |-> FALSE]

ZipFileOf(name, entries) ==
    [name |-> name, readable |-> TRUE, bytes |-> [isZip |-> TRUE, entries |-> entries]]

\* a.3mf: one plate.  b.gcode.3mf: plates 2 and 1 (in that directory order).
\* c.3mf: not a ZIP.  n.txt: a ZIP without G-code.  e.3mf: a plate that
\* cannot be decoded.
OnePlateFile == ZipFileOf(<<"a", ".", "3", "m", "f">>, <<DirMember, Member(gcodePath(1), <<"G", "1">>, FALSE)>>)
TwoPlateFile ==
    ZipFileOf(<<"b", ".", "g", "c", "o", "d", "e", ".", "3", "m", "f">>,
              <<Member(gcodePath(2), <<"G", "2", "\n">>, FALSE),
                Member(gcodePath(1), <<"G", "3">>, FALSE)>>)
NotZipFile == [name |-> <<"c", ".", "3", "m", "f">>, readable |-> TRUE, bytes |-> NotZipBytes]
NoGcodeFile == ZipFileOf(<<"n", ".", "t", "x", "t">>, <<DirMember>>)
CorruptFile == ZipFileOf(<<"e", ".", "3", "m", "f">>, <<Member(gcodePath(1), <<"G", "1">>, TRUE)>>)

AppFiles == {OnePlateFile, TwoPlateFile, NotZipFile, NoGcodeFile, CorruptFile}

Batches == UNION {[1..n -> AppFiles] : n \in 1..MaxBatch}

\* processUploadedFile, the drop filter and the plate count, tabulated over the
\* inputs of the application specification.
UploadOutcomes == [f \in AppFiles |-> processUploadedFile(f)]

PlateCounts ==
    [f \in AppFiles |->
        LET r == extractAllPlatesFromZip(f) IN IF r.tag = "ok" THEN Len(r.plates) ELSE 0]

\* What the user may type into a copies field.
TypedValues == {<<"0">>, <<"-", "5">>, <<"1", "5", "0">>, <<>>, <<"2">>, <<"9", "8">>}

(* ------------------------------------------------------------------ *)
(* State                                                               *)
(* ------------------------------------------------------------------ *)
VARIABLES
    files,            \* App: the work queue
    processing,       \* App: [isProcessing, progress, message]
    reports,          \* App: the progress values set by the latest operation, in order
    error,            \* App: the error shown, or NULL
    profileConfirmed, \* App: the confirmation checkbox
    dragIndex,        \* FileList: index of the dragged item, or NoIndex
    dragOverIndex,    \* FileList: index of the item last dragged over, or NoIndex
    tasks,            \* the async handlers suspended at an await
    downloaded,       \* what the step just taken handed to downloadBlob
    xfile,            \* extraction specification: the File given to the extractor
    xresult,          \* ... the outcome of extractAllPlatesFromZip(xfile)
    xprocessed,       \* ... an outcome of processUploadedFile(xfile)
    dseconds,         \* duration specification: a number of seconds
    dformatted,       \* ... formatSeconds(dseconds)
    dparsed,          \* ... parseTimeToSeconds(dformatted)
    etext,            \* estimate specification: a G-code text
    eresult           \* ... parseEstimatedTime(etext)

appvars == <<files, processing, reports, error, profileConfirmed, dragIndex,
             dragOverIndex, tasks, downloaded>>
dvars == <<dseconds, dformatted, dparsed>>
evars == <<etext, eresult>>
xvars == <<xfile, xresult, xprocessed, dvars, evars>>
vars == <<appvars, xvars>>

\* A result not computed yet.
Unset == <<"unset">>
NotParsed == -1

\* The pure-function variables at rest, as the other specifications keep them.
DurationAtRest == dseconds = 0 /\ dformatted = Unset /\ dparsed = NotParsed
EstimateAtRest == etext = <<>> /\ eresult = Unset

NotRun == [tag |-> "notrun"]
NoDownload == [tag |-> "none"]

\* null of useState<number | null>
NoIndex == -1

MinCopies == 1
MaxCopies == 99

\* A progress value as a fraction in lowest terms.
RECURSIVE Gcd(_, _)
Gcd(a, b) == IF b = 0 THEN a ELSE Gcd(b, a % b)

Fraction(num, den) == <<num \div Gcd(num, den), den \div Gcd(num, den)>>

Whole(n) == <<n, 1>>

Idle(progress) == [isProcessing |-> FALSE, progress |-> Whole(progress), message |-> <<>>]

\* A progress that counts the files still to be processed.
UploadProgressRemaining(selectedFiles, i) ==
    [isProcessing |-> TRUE,
     progress |-> Fraction((Len(selectedFiles) - i) * 100, Len(selectedFiles)),
     message |-> <<"Processing ">> \o selectedFiles[i + 1].name \o <<"...">>]

\* setProcessing of the upload loop for the file at 0-based index i.
UploadProgress(selectedFiles, i) ==
    [isProcessing |-> TRUE,
     progress |-> Fraction((i + 1) * 100, Len(selectedFiles)),
     message |-> <<"Processing ">> \o selectedFiles[i + 1].name \o <<"...">>]

UploadTask(selectedFiles, i, newFiles, errors) ==
    [kind |-> "upload", selectedFiles |-> selectedFiles, i |-> i,
     newFiles |-> newFiles, errors |-> errors,
     files |-> <<>>, combinedGCode |-> <<>>]

CombineTask(fs, combinedGCode) ==
    [kind |-> "combine", selectedFiles |-> <<>>, i |-> 0,
     newFiles |-> <<>>, errors |-> <<>>,
     files |-> fs, combinedGCode |-> combinedGCode]

RemoveAt(s, k) == SubSeq(s, 1, k - 1) \o SubSeq(s, k + 1, Len(s))

\* errors.join("\n")
RECURSIVE JoinLines(_)
JoinLines(errors) ==
    IF Len(errors) = 1 THEN errors[1]
    ELSE errors[1] \o <<"\n">> \o JoinLines(Tail(errors))

\* The `disabled` prop of DropZone and FileList, and of the buttons of App.
disabled == processing.isProcessing

\* Between dragstart and dragend the browser delivers no other user input.
UserFree == dragIndex = NoIndex

\* Bounds of the exploration: the copy counts within BandWidth of either end.
InBand(copies) ==
    copies <= MinCopies + BandWidth - 1 \/ copies >= MaxCopies - BandWidth + 1

\* The number of queue entries the batch can produce.
RECURSIVE PlatesOf(_)
PlatesOf(batch) ==
    IF batch = <<>> THEN 0
    ELSE PlateCounts[batch[1]] + PlatesOf(Tail(batch))

(* ------------------------------------------------------------------ *)
(* App: handleFilesSelected                                            *)
(* ------------------------------------------------------------------ *)
\* Up to the first await: setError(null), the loop's first setProcessing.
handleFilesSelected(selectedFiles) ==
    /\ Len(tasks) < MaxTasks
    /\ Len(files) + PlatesOf(selectedFiles) <= MaxQueue
    /\ error' = NULL
    /\ processing' = UploadProgress(selectedFiles, 0)
    /\ reports' = <<Whole(0), UploadProgress(selectedFiles, 0).progress>>
    /\ tasks' = Append(tasks, UploadTask(selectedFiles, 0, <<>>, <<>>))
    /\ downloaded' = NoDownload
    /\ UNCHANGED <<files, profileConfirmed, dragIndex, dragOverIndex>>

\* The catch clause of the upload loop: the message pushed for a rejection.
UploadErrorMessage(file, err) ==
    IF err.name = "FileProcessingError" THEN err.message
    ELSE <<"Error processing \"">> \o file.name \o <<"\": ">> \o err.message

\* An upload loop without the try/catch around processUploadedFile: the
\* first rejection ends the batch with that message.
UploadSettleAborts(t) ==
    /\ t \in DOMAIN tasks
    /\ tasks[t].kind = "upload"
    /\ LET task == tasks[t]
           file == task.selectedFiles[task.i + 1]
       IN \E outcome \in UploadOutcomes[file] :
            IF outcome.tag = "ok" /\ task.i + 1 < Len(task.selectedFiles)
            THEN /\ processing' = UploadProgress(task.selectedFiles, task.i + 1)
                 /\ reports' = Append(reports, UploadProgress(task.selectedFiles, task.i + 1).progress)
                 /\ tasks' = [tasks EXCEPT ![t] =
                                UploadTask(task.selectedFiles, task.i + 1,
                                           task.newFiles \o outcome.files, task.errors)]
                 /\ UNCHANGED <<files, error>>
            ELSE /\ files' = files \o (IF outcome.tag = "ok"
                                        THEN task.newFiles \o outcome.files
                                        ELSE task.newFiles)
                 /\ processing' = Idle(0)
                 /\ reports' = Append(reports, Whole(0))
                 /\ error' = IF outcome.tag = "ok" THEN error
                             ELSE UploadErrorMessage(file, outcome)
                 /\ tasks' = RemoveAt(tasks, t)
    /\ downloaded' = NoDownload
    /\ UNCHANGED <<profileConfirmed, dragIndex, dragOverIndex>>

\* An upload loop that puts what every file produces before what the files
\* settled earlier produced (unshift for push).
UploadSettleUnshifts(t) ==
    /\ t \in DOMAIN tasks
    /\ tasks[t].kind = "upload"
    /\ LET task == tasks[t]
           file == task.selectedFiles[task.i + 1]
       IN \E outcome \in UploadOutcomes[file] :
            LET newFiles == IF outcome.tag = "ok" THEN outcome.files \o task.newFiles
                            ELSE task.newFiles
                errors == IF outcome.tag = "ok" THEN task.errors
                          ELSE Append(task.errors, UploadErrorMessage(file, outcome))
            IN  IF task.i + 1 < Len(task.selectedFiles)
                THEN /\ processing' = UploadProgress(task.selectedFiles, task.i + 1)
                     /\ reports' = Append(reports, UploadProgress(task.selectedFiles, task.i + 1).progress)
                     /\ tasks' = [tasks EXCEPT ![t] =
                                    UploadTask(task.selectedFiles, task.i + 1, newFiles, errors)]
                     /\ UNCHANGED <<files, error>>
                ELSE /\ files' = files \o newFiles
                     /\ processing' = Idle(0)
                     /\ reports' = Append(reports, Whole(0))
                     /\ error' = IF Len(errors) > 0 THEN JoinLines(errors) ELSE error
                     /\ tasks' = RemoveAt(tasks, t)
    /\ downloaded' = NoDownload
    /\ UNCHANGED <<profileConfirmed, dragIndex, dragOverIndex>>

\* processUploadedFile(file) of task t settles; the loop goes on to the next
\* file, or ends: setFiles, setProcessing, setError.
UploadSettle(t) ==
    /\ t \in DOMAIN tasks
    /\ tasks[t].kind = "upload"
    /\ LET task == tasks[t]
           file == task.selectedFiles[task.i + 1]
       IN \E outcome \in UploadOutcomes[file] :
            LET newFiles == IF outcome.tag = "ok" THEN task.newFiles \o outcome.files
                            ELSE task.newFiles
                errors == IF outcome.tag = "ok" THEN task.errors
                          ELSE Append(task.errors, UploadErrorMessage(file, outcome))
            IN  IF task.i + 1 < Len(task.selectedFiles)
                THEN /\ processing' = UploadProgress(task.selectedFiles, task.i + 1)
                     /\ reports' = Append(reports, UploadProgress(task.selectedFiles, task.i + 1).progress)
                     /\ tasks' = [tasks EXCEPT ![t] =
                                    UploadTask(task.selectedFiles, task.i + 1, newFiles, errors)]
                     /\ UNCHANGED <<files, error>>
                ELSE /\ files' = files \o newFiles
                     /\ processing' = Idle(0)
                     /\ reports' = Append(reports, Whole(0))
                     /\ error' = IF Len(errors) > 0 THEN JoinLines(errors) ELSE error
                     /\ tasks' = RemoveAt(tasks, t)
    /\ downloaded' = NoDownload
    /\ UNCHANGED <<profileConfirmed, dragIndex, dragOverIndex>>

(* ------------------------------------------------------------------ *)
(* DropZone                                                            *)
(* ------------------------------------------------------------------ *)
Suffix3mf == <<".", "3", "m", "f">>
SuffixGcode3mf == <<".", "g", "c", "o", "d", "e", ".", "3", "m", "f">>

RECURSIVE FilterDropped(_)
FilterDropped(fs) ==
    IF fs = <<>> THEN <<>>
    ELSE IF EndsWith(fs[1].name, SuffixGcode3mf) \/ EndsWith(fs[1].name, Suffix3mf)
    THEN <<fs[1]>> \o FilterDropped(Tail(fs))
    ELSE FilterDropped(Tail(fs))

\* handleDrop
handleDrop(dropped) ==
    /\ UserFree
    /\ ~disabled
    /\ Len(FilterDropped(dropped)) > 0
    /\ handleFilesSelected(FilterDropped(dropped))

\* A file input that is not disabled while processing: handleFileInput itself
\* does not test `disabled`.
handleFileInputUnguarded(chosen) ==
    /\ UserFree
    /\ Len(chosen) > 0
    /\ handleFilesSelected(chosen)

\* handleClick opens the picker of the file input, handleFileInput takes its files.
handleFileInput(chosen) ==
    /\ UserFree
    /\ ~disabled
    /\ Len(chosen) > 0
    /\ handleFilesSelected(chosen)

(* ------------------------------------------------------------------ *)
(* App: queue handlers                                                 *)
(* ------------------------------------------------------------------ *)
\* setFiles(reorderedFiles)
handleReorder(reorderedFiles) == files' = reorderedFiles

\* prev.map((file) => (file.id === id ? { ...file, copies } : file))
handleUpdateCopies(id, copies) ==
    files' = [k \in DOMAIN files |->
                IF files[k].id = id THEN [files[k] EXCEPT !.copies = copies] ELSE files[k]]

\* A filter with the test the wrong way round: it keeps the file to remove.
RECURSIVE WithoutIdInverted(_, _)
WithoutIdInverted(fs, id) ==
    IF fs = <<>> THEN <<>>
    ELSE IF fs[1].id = id THEN <<fs[1]>> \o WithoutIdInverted(Tail(fs), id)
    ELSE WithoutIdInverted(Tail(fs), id)

\* prev.filter((file) => file.id !== id)
RECURSIVE WithoutId(_, _)
WithoutId(fs, id) ==
    IF fs = <<>> THEN <<>>
    ELSE IF fs[1].id # id THEN <<fs[1]>> \o WithoutId(Tail(fs), id)
    ELSE WithoutId(Tail(fs), id)

handleRemove(id) ==
    /\ files' = WithoutId(files, id)
    /\ error' = NULL

\* The Clear All button, rendered while the queue is not empty.
handleClearAll ==
    /\ UserFree
    /\ Len(files) > 0
    /\ ~processing.isProcessing
    /\ files' = <<>>
    /\ error' = NULL
    /\ downloaded' = NoDownload
    /\ UNCHANGED <<processing, reports, profileConfirmed, dragIndex, dragOverIndex, tasks>>

\* The checkbox, rendered while the queue is not empty.
ToggleProfile ==
    /\ UserFree
    /\ Len(files) > 0
    /\ profileConfirmed' = ~profileConfirmed
    /\ downloaded' = NoDownload
    /\ UNCHANGED <<files, processing, reports, error, dragIndex, dragOverIndex, tasks>>

\* The dismiss button of the error card.
DismissError ==
    /\ UserFree
    /\ Truthy(error)
    /\ error' = NULL
    /\ downloaded' = NoDownload
    /\ UNCHANGED <<files, processing, reports, profileConfirmed, dragIndex, dragOverIndex, tasks>>

(* ------------------------------------------------------------------ *)
(* FileItem                                                            *)
(* ------------------------------------------------------------------ *)
\* Number.parseInt(s, 10): leading white space, a sign, the leading digits;
\* NaN (nan) when there is no digit.
LeadingDigits(s) == SubSeq(s, 1, RunLength(s, 1, "digit", -1))

ParseInt(s) ==
    LET t == TrimStart(s)
        negative == t # <<>> /\ t[1] = "-"
        signed == t # <<>> /\ t[1] \in {"-", "+"}
        digits == LeadingDigits(IF signed THEN Tail(t) ELSE t)
    IN  [nan |-> digits = <<>>,
         value |-> IF negative THEN 0 - DigitsValue(digits) ELSE DigitsValue(digits)]

Min(a, b) == IF a < b THEN a ELSE b
Max(a, b) == IF a > b THEN a ELSE b

\* A clamp that forgets the lower end: Math.min(99, Number.parseInt(value, 10)).
ClampCopiesNoFloor(typed) ==
    LET parsed == ParseInt(typed)
    IN  IF parsed.nan THEN 1 ELSE Min(MaxCopies, parsed.value)

\* Math.max(1, Math.min(99, Number.parseInt(e.target.value, 10) || 1))
ClampCopies(typed) ==
    LET parsed == ParseInt(typed)
        orOne == IF parsed.nan \/ parsed.value = 0 THEN 1 ELSE parsed.value
    IN  Max(MinCopies, Min(MaxCopies, orOne))

\* The value computed for each text the user may type.
ClampedValues == [typed \in TypedValues |-> ClampCopies(typed)]

handleCopiesChange(k, typed) ==
    /\ UserFree
    /\ k \in DOMAIN files
    /\ ~disabled
    /\ InBand(ClampedValues[typed])
    /\ handleUpdateCopies(files[k].id, ClampedValues[typed])
    /\ downloaded' = NoDownload
    /\ UNCHANGED <<processing, reports, error, profileConfirmed, dragIndex, dragOverIndex, tasks>>

incrementCopies(k) ==
    /\ UserFree
    /\ k \in DOMAIN files
    /\ ~(disabled \/ files[k].copies >= MaxCopies)
    /\ files[k].copies < MaxCopies
    /\ InBand(files[k].copies + 1)
    /\ handleUpdateCopies(files[k].id, files[k].copies + 1)
    /\ downloaded' = NoDownload
    /\ UNCHANGED <<processing, reports, error, profileConfirmed, dragIndex, dragOverIndex, tasks>>

decrementCopies(k) ==
    /\ UserFree
    /\ k \in DOMAIN files
    /\ ~(disabled \/ files[k].copies <= MinCopies)
    /\ files[k].copies > MinCopies
    /\ InBand(files[k].copies - 1)
    /\ handleUpdateCopies(files[k].id, files[k].copies - 1)
    /\ downloaded' = NoDownload
    /\ UNCHANGED <<processing, reports, error, profileConfirmed, dragIndex, dragOverIndex, tasks>>

\* The delete button: onRemove(file.id)
RemoveClick(k) ==
    /\ UserFree
    /\ k \in DOMAIN files
    /\ ~disabled
    /\ handleRemove(files[k].id)
    /\ downloaded' = NoDownload
    /\ UNCHANGED <<processing, reports, profileConfirmed, dragIndex, dragOverIndex, tasks>>

(* ------------------------------------------------------------------ *)
(* FileList: drag and drop (indices are 0-based, as in the code)       *)
(* ------------------------------------------------------------------ *)
\* draggable={!disabled}; onDragStart(index)
handleDragStart(index) ==
    /\ UserFree
    /\ index \in 0..(Len(files) - 1)
    /\ ~disabled
    /\ dragIndex' = index
    /\ downloaded' = NoDownload
    /\ UNCHANGED <<files, processing, reports, error, profileConfirmed, dragOverIndex, tasks>>

\* onDragOver(index): an item, or files from outside, dragged over item index.
handleDragOver(index) ==
    /\ index \in 0..(Len(files) - 1)
    /\ dragOverIndex' = index
    /\ downloaded' = NoDownload
    /\ UNCHANGED <<files, processing, reports, error, profileConfirmed, dragIndex, tasks>>

\* newFiles.splice(dragIndex, 1) then newFiles.splice(dragOverIndex, 0, draggedItem)
Reordered(fs, from, to) ==
    LET draggedItem == fs[from + 1]
        rest == RemoveAt(fs, from + 1)
        at == Min(to, Len(rest))
    IN  SubSeq(rest, 1, at) \o <<draggedItem>> \o SubSeq(rest, at + 1, Len(rest))

handleDragEnd ==
    /\ dragIndex # NoIndex
    /\ IF dragOverIndex # NoIndex /\ dragIndex # dragOverIndex
       THEN handleReorder(Reordered(files, dragIndex, dragOverIndex))
       ELSE UNCHANGED files
    /\ dragIndex' = NoIndex
    /\ dragOverIndex' = NoIndex
    /\ downloaded' = NoDownload
    /\ UNCHANGED <<processing, reports, error, profileConfirmed, tasks>>

(* ------------------------------------------------------------------ *)
(* App: handleCombineAndDownload                                       *)
(* ------------------------------------------------------------------ *)
\* `combined_${totalPrints}_prints.gcode.3mf`
DownloadName(fs) == <<"combined_">> \o ToStr(TotalPrints(fs)) \o <<"_prints.gcode.3mf">>

\* A button and a handler that do not look at the length of the queue.
handleCombineAndDownloadAnyQueue ==
    /\ UserFree
    /\ ~(processing.isProcessing \/ ~profileConfirmed)
    /\ Len(tasks) < MaxTasks
    /\ TotalPrints(files) <= MaxPrints
    /\ error' = NULL
    /\ processing' = [isProcessing |-> TRUE, progress |-> Whole(60),
                      message |-> <<"Creating ZIP archive...">>]
    /\ reports' = <<Whole(0), Whole(30), Whole(60)>>
    /\ tasks' = Append(tasks, CombineTask(files, combineGCode(files)))
    /\ downloaded' = NoDownload
    /\ UNCHANGED <<files, profileConfirmed, dragIndex, dragOverIndex>>

\* The Combine & Download button, rendered while the queue is not empty.
\* The handler up to `await createCombinedZip(files, combinedGCode)`.
handleCombineAndDownload ==
    /\ UserFree
    /\ Len(files) > 0
    /\ ~(processing.isProcessing \/ Len(files) = 0 \/ ~profileConfirmed)
    /\ Len(files) # 0
    /\ Len(tasks) < MaxTasks
    /\ TotalPrints(files) <= MaxPrints
    /\ error' = NULL
    /\ processing' = [isProcessing |-> TRUE, progress |-> Whole(60),
                      message |-> <<"Creating ZIP archive...">>]
    /\ reports' = <<Whole(0), Whole(30), Whole(60)>>
    /\ tasks' = Append(tasks, CombineTask(files, combineGCode(files)))
    /\ downloaded' = NoDownload
    /\ UNCHANGED <<files, profileConfirmed, dragIndex, dragOverIndex>>

\* A success path that reports 100 without releasing the processing state.
CombineResolveStaysBusy(t) ==
    /\ t \in DOMAIN tasks
    /\ tasks[t].kind = "combine"
    /\ downloaded' = [tag |-> "file",
                      blob |-> createCombinedZip(tasks[t].files, tasks[t].combinedGCode),
                      filename |-> DownloadName(tasks[t].files)]
    /\ processing' = [isProcessing |-> TRUE, progress |-> Whole(100), message |-> <<>>]
    /\ reports' = reports \o <<Whole(90), Whole(100)>>
    /\ tasks' = RemoveAt(tasks, t)
    /\ UNCHANGED <<files, error, profileConfirmed, dragIndex, dragOverIndex>>

\* createCombinedZip resolves: setProcessing(90), downloadBlob, setProcessing(100).
CombineResolve(t) ==
    /\ t \in DOMAIN tasks
    /\ tasks[t].kind = "combine"
    /\ downloaded' = [tag |-> "file",
                      blob |-> createCombinedZip(tasks[t].files, tasks[t].combinedGCode),
                      filename |-> DownloadName(tasks[t].files)]
    /\ processing' = Idle(100)
    /\ reports' = reports \o <<Whole(90), Whole(100)>>
    /\ tasks' = RemoveAt(tasks, t)
    /\ UNCHANGED <<files, error, profileConfirmed, dragIndex, dragOverIndex>>

\* A catch clause that shows the error and leaves the processing state as it is.
CombineRejectKeepsProcessing(t) ==
    /\ t \in DOMAIN tasks
    /\ tasks[t].kind = "combine"
    /\ error' = RepackageError.message
    /\ tasks' = RemoveAt(tasks, t)
    /\ downloaded' = NoDownload
    /\ UNCHANGED <<files, processing, reports, profileConfirmed, dragIndex, dragOverIndex>>

\* createCombinedZip rejects: the catch clause.
CombineReject(t) ==
    /\ t \in DOMAIN tasks
    /\ tasks[t].kind = "combine"
    /\ error' = RepackageError.message
    /\ processing' = Idle(0)
    /\ reports' = Append(reports, Whole(0))
    /\ tasks' = RemoveAt(tasks, t)
    /\ downloaded' = NoDownload
    /\ UNCHANGED <<files, profileConfirmed, dragIndex, dragOverIndex>>

(* ------------------------------------------------------------------ *)
(* Application specification                                           *)
(* ------------------------------------------------------------------ *)
Init ==
    /\ files = <<>>
    /\ processing = Idle(0)
    /\ reports = <<>>
    /\ error = NULL
    /\ profileConfirmed = FALSE
    /\ dragIndex = NoIndex
    /\ dragOverIndex = NoIndex
    /\ tasks = <<>>
    /\ downloaded = NoDownload
    /\ xfile = NotZipFile
    /\ xresult = NotRun
    /\ xprocessed = NotRun
    /\ DurationAtRest
    /\ EstimateAtRest

Next ==
    \/ \E batch \in Batches : handleDrop(batch) /\ UNCHANGED xvars
    \/ \E batch \in Batches : handleFileInput(batch) /\ UNCHANGED xvars
    \/ \E t \in 1..MaxTasks : UploadSettle(t) /\ UNCHANGED xvars
    \/ \E k \in 1..MaxQueue, typed \in TypedValues :
          handleCopiesChange(k, typed) /\ UNCHANGED xvars
    \/ \E k \in 1..MaxQueue : incrementCopies(k) /\ UNCHANGED xvars
    \/ \E k \in 1..MaxQueue : decrementCopies(k) /\ UNCHANGED xvars
    \/ \E k \in 1..MaxQueue : RemoveClick(k) /\ UNCHANGED xvars
    \/ handleClearAll /\ UNCHANGED xvars
    \/ ToggleProfile /\ UNCHANGED xvars
    \/ DismissError /\ UNCHANGED xvars
    \/ \E index \in 0..(MaxQueue - 1) : handleDragStart(index) /\ UNCHANGED xvars
    \/ \E index \in 0..(MaxQueue - 1) : handleDragOver(index) /\ UNCHANGED xvars
    \/ handleDragEnd /\ UNCHANGED xvars
    \/ handleCombineAndDownload /\ UNCHANGED xvars
    \/ \E t \in 1..MaxTasks : CombineResolve(t) /\ UNCHANGED xvars
    \/ \E t \in 1..MaxTasks : CombineReject(t) /\ UNCHANGED xvars

Spec == Init /\ [][Next]_vars

\* The awaited step of task t settles: processUploadedFile of an upload
\* resolves or rejects, createCombinedZip of a combine resolves or rejects.
SettleTask(t) ==
    (UploadSettle(t) \/ CombineResolve(t) \/ CombineReject(t)) /\ UNCHANGED xvars

\* The application when every awaited step eventually settles.
SpecLive == Init /\ [][Next]_vars /\ \A t \in 1..MaxTasks : WF_vars(SettleTask(t))

(* ------------------------------------------------------------------ *)
(* Extraction specification: the extractor applied to every input      *)
(* ------------------------------------------------------------------ *)
InitExtract ==
    /\ xfile \in FileUniverse
    /\ xresult = NotRun
    /\ xprocessed = NotRun
    /\ files = <<>>
    /\ processing = Idle(0)
    /\ reports = <<>>
    /\ error = NULL
    /\ profileConfirmed = FALSE
    /\ dragIndex = NoIndex
    /\ dragOverIndex = NoIndex
    /\ tasks = <<>>
    /\ downloaded = NoDownload
    /\ DurationAtRest
    /\ EstimateAtRest

Extract ==
    /\ xresult = NotRun
    /\ xresult' = extractAllPlatesFromZip(xfile)
    /\ UNCHANGED <<xfile, xprocessed, appvars, dvars, evars>>

Process ==
    /\ xprocessed = NotRun
    /\ xprocessed' \in processUploadedFile(xfile)
    /\ UNCHANGED <<xfile, xresult, appvars, dvars, evars>>

NextExtract == Extract \/ Process

SpecExtract == InitExtract /\ [][NextExtract]_vars

(* ------------------------------------------------------------------ *)
(* Duration specification: formatSeconds and parseTimeToSeconds        *)
(* ------------------------------------------------------------------ *)
\* The App and the extractor at rest.
AppAtRest ==
    /\ files = <<>>
    /\ processing = Idle(0)
    /\ reports = <<>>
    /\ error = NULL
    /\ profileConfirmed = FALSE
    /\ dragIndex = NoIndex
    /\ dragOverIndex = NoIndex
    /\ tasks = <<>>
    /\ downloaded = NoDownload

ExtractAtRest == xfile = NotZipFile /\ xresult = NotRun /\ xprocessed = NotRun

InitDuration ==
    /\ dseconds \in 0..MaxSeconds
    /\ dformatted = Unset
    /\ dparsed = NotParsed
    /\ AppAtRest
    /\ ExtractAtRest
    /\ EstimateAtRest

Format ==
    /\ dformatted = Unset
    /\ dformatted' = formatSeconds(dseconds)
    /\ UNCHANGED <<dseconds, dparsed, appvars, xfile, xresult, xprocessed, evars>>

ParseBack ==
    /\ dformatted # Unset
    /\ dparsed = NotParsed
    /\ dparsed' = parseTimeToSeconds(dformatted)
    /\ UNCHANGED <<dseconds, dformatted, appvars, xfile, xresult, xprocessed, evars>>

NextDuration == Format \/ ParseBack

SpecDuration == InitDuration /\ [][NextDuration]_vars

(* ------------------------------------------------------------------ *)
(* Estimate specification: parseEstimatedTime applied to G-code texts  *)
(* ------------------------------------------------------------------ *)
\* The lines the texts are made of: comments of the three kinds the patterns
\* look for (A: estimated printing time, T: TIME tag, S: total estimated
\* time) and a plain line (P); raw is the value as written in the comment,
\* shown the estimate it stands for.
EstimateLines ==
    <<
    [kind |-> "A",
     text |-> <<";", " ", "e", "s", "t", "i", "m", "a", "t", "e", "d", " ", "p", "r", "i", "n", "t", "i", "n", "g", " ", "t", "i", "m", "e", " ", "(", "n", "o", "r", "m", "a", "l", " ", "m", "o", "d", "e", ")", " ", "=", " ", "1", "h", " ", "2", "m">>,
     raw |-> <<"1", "h", " ", "2", "m">>,
     shown |-> <<"1", "h", " ", "2", "m">>],
    [kind |-> "A",
     text |-> <<";", " ", "e", "s", "t", "i", "m", "a", "t", "e", "d", " ", "p", "r", "i", "n", "t", "i", "n", "g", " ", "t", "i", "m", "e", " ", "=", " ", "7", "5">>,
     raw |-> <<"7", "5">>,
     shown |-> <<"1", "m", " ", "1", "5", "s">>],
    [kind |-> "A",
     text |-> <<";", "e", "s", "t", "i", "m", "a", "t", "e", "d", " ", "p", "r", "i", "n", "t", "i", "n", "g", " ", "t", "i", "m", "e", "=", "5", "m", " ", "3", "s", " ", " ">>,
     raw |-> <<"5", "m", " ", "3", "s", " ", " ">>,
     shown |-> <<"5", "m", " ", "3", "s">>],
    [kind |-> "T",
     text |-> <<";", "T", "I", "M", "E", ":", "9", "0">>,
     raw |-> <<"9", "0">>,
     shown |-> <<"1", "m", " ", "3", "0", "s">>],
    [kind |-> "S",
     text |-> <<";", " ", "t", "o", "t", "a", "l", " ", "e", "s", "t", "i", "m", "a", "t", "e", "d", " ", "t", "i", "m", "e", ":", " ", "3", "m">>,
     raw |-> <<"3", "m">>,
     shown |-> <<"3", "m">>],
    [kind |-> "S",
     text |-> <<";", " ", "t", "o", "t", "a", "l", " ", "e", "s", "t", "i", "m", "a", "t", "e", "d", " ", "t", "i", "m", "e", ":", " ", "2", "4", "0", " ">>,
     raw |-> <<"2", "4", "0", " ">>,
     shown |-> <<"4", "m">>],
    [kind |-> "P",
     text |-> <<"G", "1", " ", "X", "1">>,
     raw |-> <<>>,
     shown |-> <<>>]
    >>

\* The lines joined by line feeds.
RECURSIVE JoinText(_)
JoinText(ls) ==
    IF ls = <<>> THEN <<>>
    ELSE IF Len(ls) = 1 THEN ls[1]
    ELSE ls[1] \o <<"\n">> \o JoinText(Tail(ls))

\* Texts of up to MaxLines lines, with and without a final line feed.
TextUniverse ==
    LET picks == UNION {[1..n -> DOMAIN EstimateLines] : n \in 0..MaxLines}
        body(pick) == JoinText([k \in DOMAIN pick |-> EstimateLines[pick[k]].text])
    IN  {body(pick) : pick \in picks} \cup {body(pick) \o <<"\n">> : pick \in picks}

InitEstimate ==
    /\ etext \in TextUniverse
    /\ eresult = Unset
    /\ AppAtRest
    /\ ExtractAtRest
    /\ DurationAtRest

Estimate ==
    /\ eresult = Unset
    /\ eresult' = parseEstimatedTime(etext)
    /\ UNCHANGED <<etext, appvars, xfile, xresult, xprocessed, dvars>>

\* The text grows by a line while no estimate has been taken of it.
AppendLine(k) ==
    /\ eresult = Unset
    /\ etext \o <<"\n">> \o EstimateLines[k].text \in TextUniverse
    /\ etext' = etext \o <<"\n">> \o EstimateLines[k].text
    /\ UNCHANGED <<eresult, appvars, xfile, xresult, xprocessed, dvars>>

NextEstimate == Estimate \/ \E k \in DOMAIN EstimateLines : AppendLine(k)

SpecEstimate == InitEstimate /\ [][NextEstimate]_vars

(* ------------------------------------------------------------------ *)
(* Total specification: the queue's total estimate under removal       *)
(* ------------------------------------------------------------------ *)
\* const totalTime = calculateTotalTime(files), computed on every render.
totalTime == calculateTotalTime(files)

\* The estimates a queue entry may carry: none, the empty text (a blank value
\* on the last line of the G-code), a formatted number of seconds, free text.
EstimateUniverse ==
    {NULL, <<>>, <<"1", "m", " ", "3", "0", "s">>, <<"1", "h", " ", "2", "m">>, <<"4", "5", "s">>}

\* A queue entry of archive t.3mf with the given id, estimate and copies.
TimedFile(id, estimate, copies) ==
    [id |-> id,
     fileName |-> <<"t", ".", "3", "m", "f">>,
     displayName |-> <<"t", ".", "3", "m", "f">>,
     gcode |-> <<"G", "1">>,
     originalZip |-> OnePlateFile.bytes,
     lineCount |-> 1,
     estimatedTime |-> estimate,
     copies |-> copies,
     plateNumber |-> 1,
     sourceFile |-> <<"t", ".", "3", "m", "f">>]

TimedFiles ==
    {TimedFile(id, estimate, copies) :
        id \in Ids, estimate \in EstimateUniverse, copies \in MinCopies..(MinCopies + 1)}

\* A queue of MaxTimed entries; the shorter queues come from removals.
InitTotal ==
    /\ files \in [1..MaxTimed -> TimedFiles]
    /\ processing = Idle(0)
    /\ reports = <<>>
    /\ error = NULL
    /\ profileConfirmed = FALSE
    /\ dragIndex = NoIndex
    /\ dragOverIndex = NoIndex
    /\ tasks = <<>>
    /\ downloaded = NoDownload
    /\ ExtractAtRest
    /\ DurationAtRest
    /\ EstimateAtRest

NextTotal ==
    \/ \E k \in 1..MaxTimed : RemoveClick(k) /\ UNCHANGED xvars
    \/ \E k \in 1..MaxTimed : incrementCopies(k) /\ UNCHANGED xvars
    \/ \E k \in 1..MaxTimed : decrementCopies(k) /\ UNCHANGED xvars

SpecTotal == InitTotal /\ [][NextTotal]_vars

(* ------------------------------------------------------------------ *)
(* Drag specification: the FileList with a queue of several entries    *)
(* ------------------------------------------------------------------ *)
\* The k-th entry of the queue: an id of its own and one or two copies.
DragFile(k) == TimedFile(k, NULL, MinCopies + (k % 2))

\* A queue of MaxDrag entries; the shorter queues come from removals.
InitDrag ==
    /\ files = [k \in 1..MaxDrag |-> DragFile(k)]
    /\ processing = Idle(0)
    /\ reports = <<>>
    /\ error = NULL
    /\ profileConfirmed = FALSE
    /\ dragIndex = NoIndex
    /\ dragOverIndex = NoIndex
    /\ tasks = <<>>
    /\ downloaded = NoDownload
    /\ ExtractAtRest
    /\ DurationAtRest
    /\ EstimateAtRest

NextDrag ==
    \/ \E index \in 0..(MaxDrag - 1) : handleDragStart(index) /\ UNCHANGED xvars
    \/ \E index \in 0..(MaxDrag - 1) : handleDragOver(index) /\ UNCHANGED xvars
    \/ handleDragEnd /\ UNCHANGED xvars
    \/ \E k \in 1..MaxDrag : RemoveClick(k) /\ UNCHANGED xvars

SpecDrag == InitDrag /\ [][NextDrag]_vars

(* ------------------------------------------------------------------ *)
(* Claims about extraction (under SpecExtract)                         *)
(* ------------------------------------------------------------------ *)
ZipOpens(f) == f.readable /\ f.bytes.isZip

xzip == xfile.bytes.entries

Extracted == xresult.tag # "notrun"

\* The plate numbers n in 1..16 for which Metadata/plate_<n>.gcode is a member.
ConventionalNumbers(zip) ==
    {n \in 1..16 : \E k \in DOMAIN zip : zip[k].name = gcodePath(n) /\ ~zip[k].dir}

\* The names of the non-directory members ending in .gcode.
GcodeMemberNames(zip) ==
    {zip[k].name : k \in {j \in DOMAIN zip :
        ~zip[j].dir /\ EndsWith(zip[j].name, <<".", "g", "c", "o", "d", "e">>)}}

ContentOf(zip, name) == zip[CHOOSE k \in DOMAIN zip : zip[k].name = name].content

\* The i-th smallest of a set of names.
NameOfRank(names, i) ==
    CHOOSE n \in names : Cardinality({m \in names : StrLess(m, n)}) = i - 1

\* plates is one record per conventional member, ascending, numbered by slot.
OnePlatePerConventionalMember(plates, zip) ==
    /\ Len(plates) = Cardinality(ConventionalNumbers(zip))
    /\ \A i \in DOMAIN plates :
         /\ plates[i].plateNumber \in ConventionalNumbers(zip)
         /\ plates[i].gcode = ContentOf(zip, gcodePath(plates[i].plateNumber))
    /\ \A i, j \in DOMAIN plates : i < j => plates[i].plateNumber < plates[j].plateNumber

NoCorruptMember(zip) == \A k \in DOMAIN zip : ~zip[k].corrupt

\* C2 as stated (for archives whose members all decode): when no conventional
\* member exists, extraction returns one record for every non-directory
\* .gcode member, in sorted name order, the i-th record numbered i.
C2_Original ==
    (/\ Extracted
     /\ ZipOpens(xfile)
     /\ NoCorruptMember(xzip)
     /\ ConventionalNumbers(xzip) = {}
     /\ GcodeMemberNames(xzip) # {}) =>
        /\ xresult.tag = "ok"
        /\ Len(xresult.plates) = Cardinality(GcodeMemberNames(xzip))
        /\ \A i \in DOMAIN xresult.plates :
             /\ xresult.plates[i].plateNumber = i
             /\ xresult.plates[i].gcode =
                  ContentOf(xzip, NameOfRank(GcodeMemberNames(xzip), i))

Contains(s, part) ==
    \E k \in 0..(Len(s) - Len(part)) : SubSeq(s, k + 1, k + Len(part)) = part

\* C3: an input that cannot be read or parsed as a ZIP makes extraction fail
\* with a FileProcessingError whose message is the invalid-archive message
\* and names the file; no plate list is returned and processUploadedFile
\* yields no queue entry.
C3_InvalidArchive ==
    ~ZipOpens(xfile) =>
        /\ Extracted =>
             /\ xresult.tag = "throw"
             /\ xresult.name = "FileProcessingError"
             /\ Contains(xresult.message, xfile.name)
             /\ \E k \in DOMAIN xresult.message :
                  xresult.message[k] = "\" is not a valid ZIP archive. Make sure you're uploading a .gcode.3mf file."
        /\ xprocessed.tag # "notrun" => xprocessed.tag = "throw"

C3_Witness ==
    /\ Extracted
    /\ xprocessed.tag = "throw"
    /\ xfile.readable
    /\ ~xfile.bytes.isZip

IsNoGCodeFound(r, fileName) ==
    /\ r.tag = "throw"
    /\ r.name = "FileProcessingError"
    /\ Contains(r.message, fileName)
    /\ \E k \in DOMAIN r.message :
         r.message[k] = "\" doesn't contain any G-code. Make sure you exported it as \"All plates sliced file\" or \"Plate sliced file\" from Bambu Studio."

\* C4 as stated (for archives whose members all decode): extraction fails with
\* NoGCodeFound naming the file exactly when the archive has neither a
\* conventional member nor a non-directory .gcode member; otherwise it returns
\* a non-empty plate list.
C4_Original ==
    (Extracted /\ ZipOpens(xfile) /\ NoCorruptMember(xzip)) =>
        IF ConventionalNumbers(xzip) = {} /\ GcodeMemberNames(xzip) = {}
        THEN IsNoGCodeFound(xresult, xfile.name)
        ELSE xresult.tag = "ok" /\ Len(xresult.plates) > 0

(* ------------------------------------------------------------------ *)
(* Claims about combining (under Spec)                                 *)
(* ------------------------------------------------------------------ *)
\* The positions of a text at which a delimiter comment starts.
DelimiterStarts(text) == {i \in DOMAIN text : text[i] = ";"}

\* The position of the k-th delimiter comment.
NthStart(text, k) ==
    CHOOSE i \in DelimiterStarts(text) :
        Cardinality({j \in DelimiterStarts(text) : j <= i}) = k

\* The last position of the k-th segment.
SegmentEnd(text, k) ==
    IF k = Cardinality(DelimiterStarts(text)) THEN Len(text)
    ELSE NthStart(text, k + 1) - 1

\* The end of the line that starts at position i.
LineEnd(text, i) ==
    CHOOSE j \in i..Len(text) : text[j] = "\n" /\ \A h \in i..(j - 1) : text[h] # "\n"

\* What follows the delimiter comment line in the k-th segment.
SegmentPayload(text, k) ==
    SubSeq(text, LineEnd(text, NthStart(text, k)) + 1, SegmentEnd(text, k))

\* The queue position of the file whose copy is print k of the queue.
OwnerOfPrint(fs, k) ==
    CHOOSE j \in DOMAIN fs :
        /\ TotalPrints(SubSeq(fs, 1, j - 1)) < k
        /\ k <= TotalPrints(SubSeq(fs, 1, j))

CombineInFlight == \E t \in DOMAIN tasks : tasks[t].kind = "combine"

\* C5: while a combine is in flight, the combined text it computed consists of
\* exactly sum(copies) segments over the queue it was triggered on; the
\* k-th segment starts with a delimiter comment line and carries the payload
\* of the file that owns print k in queue order (each file's payload copies
\* times in a row, files in queue order).
C5_CombinedText ==
    \A t \in DOMAIN tasks :
        tasks[t].kind = "combine" =>
            LET text == tasks[t].combinedGCode IN
            /\ Len(files) > 0
            /\ Cardinality(DelimiterStarts(text)) = TotalPrints(files)
            /\ text[1] = ";"
            /\ \A k \in 1..TotalPrints(files) :
                  SegmentPayload(text, k) = files[OwnerOfPrint(files, k)].gcode \o <<"\n">>

\* A combine in flight over two files with different payloads, the first
\* with two copies.
C5_Witness ==
    /\ CombineInFlight
    /\ Len(files) = 2
    /\ files[1].copies = 2
    /\ files[1].gcode # files[2].gcode

\* The member of the queue head's archive that its payload was read from.
IsPayloadMember(entry, f) ==
    ~entry.dir /\ ~entry.corrupt /\ entry.content = f.gcode

ClaimedTyped == {<<"0">>, <<"-", "5">>, <<"1", "5", "0">>}

StoredAs(typed) ==
    CASE typed = <<"0">> -> 1
      [] typed = <<"-", "5">> -> 1
      [] typed = <<"1", "5", "0">> -> 99

\* What a step does to the copy counts, as the claim states it.
CopiesStep ==
    /\ \A k \in DOMAIN files' : files'[k].copies \in 1..99
    /\ \A k \in DOMAIN files, typed \in ClaimedTyped :
          \/ k \in DOMAIN files' /\ files'[k].copies = StoredAs(typed)
          \/ ~handleCopiesChange(k, typed)
    /\ \A j \in DOMAIN files' : j > Len(files) => files'[j].copies = 1

\* C7: every step leaves every file of the queue (empty at the start) with a
\* copy count in 1..99; typing 0, -5 or 150 into the copies field of a file
\* stores 1, 1 or 99 for it; and every file a step adds to the queue has copy
\* count 1.
C7_CopiesInRange == [][CopiesStep]_vars

\* A queue in which one file is at the upper end after 150 or 98 was typed
\* and another is still at the 1 it was uploaded with.
C7_Witness ==
    /\ Len(files) = 2
    /\ files[1].id # files[2].id
    /\ files[1].copies = 99
    /\ files[2].copies = 1

(* ------------------------------------------------------------------ *)
(* Claims about a batch upload (under Spec)                            *)
(* ------------------------------------------------------------------ *)
\* The files of the application's inputs whose extraction fails.
Fails(f) == f \in {NotZipFile, NoGcodeFile, CorruptFile}

RECURSIVE FailedOf(_)
FailedOf(batch) ==
    IF batch = <<>> THEN <<>>
    ELSE IF Fails(batch[1]) THEN <<batch[1]>> \o FailedOf(Tail(batch))
    ELSE FailedOf(Tail(batch))

\* The archive name of every queue entry the batch is to contribute, in order.
RECURSIVE ContributedNames(_)
ContributedNames(batch) ==
    IF batch = <<>> THEN <<>>
    ELSE IF Fails(batch[1]) THEN ContributedNames(Tail(batch))
    ELSE [k \in 1..PlateCounts[batch[1]] |-> batch[1].name] \o ContributedNames(Tail(batch))

\* The lines of a text.
RECURSIVE SplitLines(_, _)
SplitLines(text, line) ==
    IF text = <<>> THEN <<line>>
    ELSE IF text[1] = "\n" THEN <<line>> \o SplitLines(Tail(text), <<>>)
    ELSE SplitLines(Tail(text), Append(line, text[1]))

\* What the step that settles a file of upload task t does, as the claim
\* states it: before the last file nothing is added and no error is shown; with
\* the last file the queue grows by the entries of every file of the batch that
\* extracts, in batch order, and the error shown has one line per failed file,
\* naming it, in batch order (none: no error is shown).
BatchStep(t) ==
    LET batch == tasks[t].selectedFiles
        failed == FailedOf(batch)
        names == ContributedNames(batch)
    IN  IF Len(tasks') = Len(tasks)
        THEN files' = files /\ error' = NULL
        ELSE /\ Len(files') = Len(files) + Len(names)
             /\ SubSeq(files', 1, Len(files)) = files
             /\ \A j \in DOMAIN names : files'[Len(files) + j].fileName = names[j]
             /\ IF failed = <<>> THEN error' = NULL
                ELSE /\ Len(SplitLines(error', <<>>)) = Len(failed)
                     /\ \A j \in DOMAIN failed :
                           Contains(SplitLines(error', <<>>)[j], failed[j].name)

\* C8: a file of a batch that fails does not end the batch: every step of an
\* upload in flight is a BatchStep, so that each file that extracts contributes
\* its entries, each failed file contributes exactly one message, and the
\* messages are shown together only after the last file.
C8_BatchUpload ==
    [][\A t \in DOMAIN tasks :
          (tasks[t].kind = "upload" /\ tasks' # tasks) => BatchStep(t)]_vars

\* The first file of a batch has failed and the second, which extracts, is
\* being processed.
C8_Witness ==
    \E t \in DOMAIN tasks :
        /\ tasks[t].kind = "upload"
        /\ tasks[t].i = 1
        /\ Fails(tasks[t].selectedFiles[1])
        /\ ~Fails(tasks[t].selectedFiles[2])
        /\ processing.isProcessing

(* ------------------------------------------------------------------ *)
(* Claims about operations in flight (under Spec)                      *)
(* ------------------------------------------------------------------ *)
\* The step starts a combine: its task joins the suspended handlers.
CombineStarts ==
    /\ Len(tasks') = Len(tasks) + 1
    /\ tasks'[Len(tasks')].kind = "combine"

\* What a step does around a combine, as the claim states it: the combine is
\* triggered on the queue as it is and leaves it alone; when it settles, by
\* failure or by success, the queue is the one it was triggered on; and after
\* a failure an error is shown and the processing state is not-processing
\* with progress 0.
CombineStep ==
    /\ CombineStarts => (tasks'[Len(tasks')].files = files /\ files' = files)
    /\ \A t \in DOMAIN tasks :
          (tasks[t].kind = "combine" /\ tasks' # tasks) =>
              /\ files' = tasks[t].files
              /\ files' = files
              /\ downloaded'.tag # "file" =>
                    /\ Truthy(error')
                    /\ ~processing'.isProcessing
                    /\ processing'.progress = Whole(0)

\* C9: every step is a CombineStep: a combine that fails leaves the queue
\* (files, order, copy counts) as it was when the combine was triggered, shows
\* the error and resets the processing state; a combine that succeeds leaves
\* the queue as it was too.
C9_CombineKeepsQueue == [][CombineStep]_vars

\* A combine over two files, one with two copies, has failed.
C9_Witness ==
    /\ error = RepackageError.message
    /\ ~processing.isProcessing
    /\ tasks = <<>>
    /\ Len(files) = 2
    /\ files[2].copies = 2

\* What a step does to the operations in flight, as the claim states it: at
\* most one handler is suspended, and one is exactly while isProcessing; while
\* isProcessing no step starts an operation, and the queue changes only when
\* the upload in flight ends and appends its files.
InFlightStep ==
    /\ Len(tasks') <= 1
    /\ processing'.isProcessing <=> tasks' # <<>>
    /\ processing.isProcessing =>
          /\ Len(tasks') <= Len(tasks)
          /\ files' # files =>
                \E t \in DOMAIN tasks : tasks[t].kind = "upload" /\ tasks' = <<>>

\* C10: every step is an InFlightStep: at most one operation (an upload batch
\* or a combine) is in flight, no trigger starts another one while
\* isProcessing, and no control changes the queue under it.
C10_OneOperation == [][InFlightStep]_vars

\* A combine is in flight over a queue of two files, the plate with the
\* higher number first.
C10_Witness ==
    /\ CombineInFlight
    /\ processing.isProcessing
    /\ Len(files) = 2
    /\ files[1].id # files[2].id
    /\ files[1].plateNumber > files[2].plateNumber

(* ------------------------------------------------------------------ *)
(* Claims about durations (under SpecDuration)                         *)
(* ------------------------------------------------------------------ *)
\* C11: for every non-negative integer s (here 0..MaxSeconds), once
\* formatSeconds(s) has been parsed back by parseTimeToSeconds the result is s.
C11_RoundTrip == dparsed # NotParsed => dparsed = dseconds

\* A round trip of a duration with all three components, the minutes and
\* seconds of two digits.
C11_Witness ==
    /\ dparsed # NotParsed
    /\ dseconds \div 3600 > 0
    /\ (dseconds % 3600) \div 60 >= 10
    /\ dseconds % 60 >= 10

(* ------------------------------------------------------------------ *)
(* Claims about the total estimate (under SpecTotal)                   *)
(* ------------------------------------------------------------------ *)
\* The seconds each estimate of EstimateUniverse stands for.
SecondsOf(estimate) ==
    CASE estimate = NULL -> 0
      [] estimate = <<>> -> 0
      [] estimate = <<"1", "m", " ", "3", "0", "s">> -> 90
      [] estimate = <<"1", "h", " ", "2", "m">> -> 3720
      [] estimate = <<"4", "5", "s">> -> 45

\* The sum over fs of the seconds of each estimate times the file's copies.
RECURSIVE SumSeconds(_)
SumSeconds(fs) ==
    IF fs = <<>> THEN 0
    ELSE SecondsOf(fs[1].estimatedTime) * fs[1].copies + SumSeconds(Tail(fs))

\* C12 as stated, a file carrying an estimate when its estimatedTime is not
\* null: the total is absent exactly when no file carries an estimate, and is
\* otherwise formatSeconds of the sum of seconds times copies.
C12_Original ==
    totalTime = IF \A k \in DOMAIN files : files[k].estimatedTime = NULL
                THEN NULL
                ELSE formatSeconds(SumSeconds(files))

\* C12, amended: the total is absent exactly when no file carries a non-empty
\* estimate (null and the empty text both count as no estimate); otherwise it
\* is formatSeconds of the sum, over the files, of the seconds of the estimate
\* times the copies, the files without an estimate adding 0.
C12_TotalTime ==
    totalTime = IF \A k \in DOMAIN files : files[k].estimatedTime \in {NULL, <<>>}
                THEN NULL
                ELSE formatSeconds(SumSeconds(files))

\* A queue of a file without an estimate before a file with two copies of an
\* estimate: the total is that of the second file alone.
C12_Witness ==
    /\ Len(files) = 2
    /\ files[1].estimatedTime = NULL
    /\ files[2].estimatedTime = <<"1", "m", " ", "3", "0", "s">>
    /\ files[2].copies = 2
    /\ totalTime = <<"3", "m">>

\* What removing the k-th file does to the total, as the claim states it: the
\* seconds do not grow, no remaining file is the removed one, the remaining
\* files are the others in their order (ids being distinct), the total is the
\* aggregate of the remaining files, and it is absent when none of them
\* carries an estimate.
RemovalStep(k) ==
    /\ SumSeconds(files') <= SumSeconds(files)
    /\ \A j \in DOMAIN files' : files'[j].id # files[k].id
    /\ (\A i, j \in DOMAIN files : files[i].id = files[j].id => i = j)
          => files' = RemoveAt(files, k)
    /\ calculateTotalTime(files') = IF \A j \in DOMAIN files' : ~Truthy(files'[j].estimatedTime)
                     THEN NULL
                     ELSE formatSeconds(SumSeconds(files'))

\* C13: every removal of a file from the queue is a RemovalStep.
C13_RemovalTotal ==
    [][\A k \in DOMAIN files : RemoveClick(k) => RemovalStep(k)]_vars

\* Files have been removed from the queue, the ones with an estimate among
\* them: the file that remains has none and the total is absent.
C13_Witness ==
    /\ Len(files) = 1
    /\ files[1].estimatedTime = NULL
    /\ files[1].copies = 2
    /\ totalTime = NULL

\* The entry of EstimateLines a line is, 0 for any other line.
LineIndex(line) ==
    IF \E k \in DOMAIN EstimateLines : EstimateLines[k].text = line
    THEN CHOOSE k \in DOMAIN EstimateLines : EstimateLines[k].text = line
    ELSE 0

\* The first line of a text of the given kind, as an entry of EstimateLines;
\* 0 when the text has no such line.
FirstOfKind(text, kind) ==
    LET lines == SplitLines(text, <<>>)
        hits == {n \in DOMAIN lines :
                    LineIndex(lines[n]) # 0 /\ EstimateLines[LineIndex(lines[n])].kind = kind}
    IN  IF hits = {} THEN 0
        ELSE LineIndex(lines[CHOOSE n \in hits : \A o \in hits : n <= o])

\* The comment whose value the priority order selects: an estimated printing
\* time comment when the text has one, wherever it is; else a TIME tag; else a
\* total estimated time comment; 0 when the text has none of them.
WinningLine(text) ==
    IF FirstOfKind(text, "A") # 0 THEN FirstOfKind(text, "A")
    ELSE IF FirstOfKind(text, "T") # 0 THEN FirstOfKind(text, "T")
    ELSE FirstOfKind(text, "S")

\* C14: the estimate of a text is the value of its (first) estimated printing
\* time comment when it has one, even behind a TIME tag or a total estimated
\* time comment; of its TIME tag only when it has no such comment; of its total
\* estimated time comment only when it has neither; and null when it has none
\* of the three.
C14_PatternPriority ==
    eresult # Unset =>
        eresult = IF WinningLine(etext) = 0 THEN NULL
                  ELSE EstimateLines[WinningLine(etext)].shown

\* A TIME tag, then a total estimated time comment, then an estimated printing
\* time comment: the estimate is the value of the last line.
C14_Witness ==
    /\ etext = JoinText(<<EstimateLines[4].text, EstimateLines[5].text, EstimateLines[1].text>>)
    /\ eresult = <<"1", "h", " ", "2", "m">>

\* C15 as stated, the captured value being the text of the comment behind its
\* "=" or ":" and the white space that follows it, up to the end of the line: a
\* captured value of digits only is shown as formatSeconds of it, any other is
\* returned as it is.
C15_Original ==
    eresult # Unset /\ WinningLine(etext) # 0 =>
        LET raw == EstimateLines[WinningLine(etext)].raw IN
        eresult = IF AllDigits(raw) THEN formatSeconds(DigitsValue(raw)) ELSE raw

\* C15, amended: the captured value is first trimmed of the white space around
\* it; a trimmed value of digits only is shown as formatSeconds of it, any
\* other trimmed value is returned as it is.
C15_TrimmedValue ==
    eresult # Unset /\ WinningLine(etext) # 0 =>
        LET raw == EstimateLines[WinningLine(etext)].raw IN
        eresult = IF AllDigits(Trim(raw)) THEN formatSeconds(DigitsValue(Trim(raw))) ELSE Trim(raw)

\* A total estimated time comment of digits followed by a space: the estimate
\* is the formatted number of seconds.
C15_Witness ==
    /\ etext = EstimateLines[6].text \o <<"\n">>
    /\ eresult = <<"4", "m">>

\* The words of a text, a single space apart.
RECURSIVE SplitWords(_, _)
SplitWords(text, word) ==
    IF text = <<>> THEN <<word>>
    ELSE IF text[1] = " " THEN <<word>> \o SplitWords(Tail(text), <<>>)
    ELSE SplitWords(Tail(text), Append(word, text[1]))

\* The hours, minutes and seconds of a number of seconds, in that order.
ComponentsOf(s) ==
    << [unit |-> "h", n |-> s \div 3600],
       [unit |-> "m", n |-> (s % 3600) \div 60],
       [unit |-> "s", n |-> s % 60] >>

\* A word read as a component: its last character is the unit, the characters
\* before it a decimal number without a leading zero (a lone 0 excepted).
IsComponentWord(word) ==
    /\ Len(word) >= 2
    /\ AllDigits(SubSeq(word, 1, Len(word) - 1))
    /\ (word[1] = "0" => Len(word) = 2)

ReadWord(word) ==
    [unit |-> word[Len(word)], n |-> DigitsValue(SubSeq(word, 1, Len(word) - 1))]

\* C16: formatSeconds(s) is the non-zero components among hours, minutes and
\* seconds of s, in that order, each a number followed by h, m or s, joined by
\* single spaces; when all three are zero it is "0s". So 0 gives "0s", 3661
\* gives "1h 1m 1s" and 90 gives "1m 30s".
C16_Components ==
    dformatted # Unset =>
        LET words == SplitWords(dformatted, <<>>)
            nonZero == SelectSeq(ComponentsOf(dseconds), LAMBDA c : c.n > 0)
        IN  /\ \A k \in DOMAIN words : IsComponentWord(words[k])
            /\ [k \in DOMAIN words |-> ReadWord(words[k])]
                  = IF nonZero = <<>> THEN <<[unit |-> "s", n |-> 0]>> ELSE nonZero
            /\ (dseconds = 0 => dformatted = <<"0", "s">>)
            /\ (dseconds = 3661 => dformatted = <<"1", "h", " ", "1", "m", " ", "1", "s">>)
            /\ (dseconds = 90 => dformatted = <<"1", "m", " ", "3", "0", "s">>)

\* A number of seconds of whole hours and seconds but no minutes has been
\* formatted: the minutes are left out.
C16_Witness ==
    /\ dseconds = 7205
    /\ dformatted = <<"2", "h", " ", "5", "s">>

\* C17: processUploadedFile yields exactly one file per extracted plate, in
\* plate order, each carrying its plate's text and number; when the upload has
\* more than one plate every display name is the file name followed by the
\* plate's number, so that the names of the upload are pairwise distinct and
\* differ from the file name; when it has a single plate the display name is
\* the file name itself. An upload that does not extract yields no file.
C17_OneFilePerPlate ==
    Extracted /\ xprocessed.tag # "notrun" =>
        IF xresult.tag = "throw" THEN xprocessed = xresult
        ELSE LET plates == xresult.plates
                 made == xprocessed.files
             IN  /\ xprocessed.tag = "ok"
                 /\ Len(made) = Len(plates)
                 /\ \A k \in DOMAIN made :
                       /\ made[k].plateNumber = plates[k].plateNumber
                       /\ made[k].gcode = plates[k].gcode
                       /\ made[k].fileName = xfile.name
                       /\ made[k].displayName =
                             IF Len(plates) > 1
                             THEN xfile.name \o EmDashPlate \o ToStr(plates[k].plateNumber)
                             ELSE xfile.name
                 /\ \A j, k \in DOMAIN made :
                       j < k => /\ made[j].plateNumber < made[k].plateNumber
                                /\ made[j].displayName # made[k].displayName
                 /\ Len(plates) > 1 =>
                       \A k \in DOMAIN made : made[k].displayName # xfile.name

\* An upload of two plates, the second of them plate 16, has been extracted and
\* processed: the second file is named after plate 16.
C17_Witness ==
    /\ Extracted
    /\ xprocessed.tag = "ok"
    /\ Len(xprocessed.files) = 2
    /\ xprocessed.files[2].plateNumber = 16
    /\ xprocessed.files[2].displayName = xfile.name \o EmDashPlate \o <<"1", "6">>

\* The number of lines of a text that is not empty: one per line feed, and
\* one more for a last line that no line feed terminates.
NumberOfLines(text) ==
    Cardinality({k \in DOMAIN text : text[k] = "\n"})
        + (IF text[Len(text)] # "\n" THEN 1 ELSE 0)

\* C18 as stated: the line count recorded for every extracted plate with a
\* text is the number of lines of the text, a text of N lines that ends with a
\* line feed counting N.
C18_Original ==
    Extracted /\ xresult.tag = "ok" =>
        \A k \in DOMAIN xresult.plates :
            xresult.plates[k].gcode # <<>> =>
                xresult.plates[k].lineCount = NumberOfLines(xresult.plates[k].gcode)

(* ------------------------------------------------------------------ *)
(* Claims about the order of an upload (under Spec)                    *)
(* ------------------------------------------------------------------ *)
\* The plates of the application's input files, in plate order.
PlateOrderOf(f) ==
    IF f = OnePlateFile THEN <<1>>
    ELSE IF f = TwoPlateFile THEN <<1, 2>>
    ELSE <<>>

\* The archive name and plate number of every queue entry a batch is to
\* produce: file after file in submission order, plate after plate within a
\* file.
RECURSIVE ExpectedEntries(_)
ExpectedEntries(batch) ==
    IF batch = <<>> THEN <<>>
    ELSE [k \in DOMAIN PlateOrderOf(batch[1]) |->
             [fileName |-> batch[1].name, plateNumber |-> PlateOrderOf(batch[1])[k]]]
         \o ExpectedEntries(Tail(batch))

\* The archive name and plate number of the entries of a queue.
EntriesOf(fs) ==
    [k \in DOMAIN fs |-> [fileName |-> fs[k].fileName, plateNumber |-> fs[k].plateNumber]]

\* What the step that settles a file of upload task t does, as the claim
\* states it: the file settled is the one after those already settled and the
\* only one being processed; before the last file the task goes on to the next
\* file of the batch, the queue unchanged, holding what the files settled so
\* far produce; with the last file the queue keeps its entries, in their order,
\* followed by what the batch produces, in submission order and plate order
\* (the entries of the files settled earlier ahead of those of the last file).
SubmissionStep(t) ==
    LET task == tasks[t]
        batch == task.selectedFiles
    IN  /\ EntriesOf(task.newFiles) = ExpectedEntries(SubSeq(batch, 1, task.i))
        /\ processing.message = <<"Processing ">> \o batch[task.i + 1].name \o <<"...">>
        /\ IF task.i + 1 < Len(batch)
           THEN /\ Len(tasks') = Len(tasks)
                /\ tasks'[t].selectedFiles = batch
                /\ tasks'[t].i = task.i + 1
                /\ EntriesOf(tasks'[t].newFiles) = ExpectedEntries(SubSeq(batch, 1, task.i + 1))
                /\ SubSeq(tasks'[t].newFiles, 1, Len(task.newFiles)) = task.newFiles
                /\ files' = files
           ELSE /\ tasks' = RemoveAt(tasks, t)
                /\ Len(files') = Len(files) + Len(ExpectedEntries(batch))
                /\ SubSeq(files', 1, Len(files) + Len(task.newFiles)) = files \o task.newFiles
                /\ EntriesOf(SubSeq(files', Len(files) + 1, Len(files'))) = ExpectedEntries(batch)

\* C19: the files of a batch are processed one at a time in submission order,
\* and what they produce is appended to the queue behind the entries it has,
\* in submission order and plate order: every step that settles a file of an
\* upload is a SubmissionStep.
C19_SubmissionOrder ==
    [][\A t \in DOMAIN tasks : UploadSettle(t) => SubmissionStep(t)]_vars

\* A batch of a file that fails and a file of one plate has been added to a
\* queue that had an entry of another archive: the entry is still first and
\* the new one follows it.
C19_Witness ==
    /\ Len(files) = 2
    /\ files[1].fileName = TwoPlateFile.name
    /\ files[2].fileName = OnePlateFile.name
    /\ tasks = <<>>
    /\ error # NULL

(* ------------------------------------------------------------------ *)
(* Claims about the drag reorder (under SpecDrag)                      *)
(* ------------------------------------------------------------------ *)
\* after holds the entries of before, each as often, copies and all.
IsRearrangement(before, after) ==
    /\ Len(after) = Len(before)
    /\ \A k \in DOMAIN before :
          Cardinality({j \in DOMAIN after : after[j] = before[k]})
             = Cardinality({j \in DOMAIN before : before[j] = before[k]})

\* What the end of a drag does, as the claim states it, the drop index being
\* the index the drag was last over: the queue is rearranged; on a drop index
\* other than the entry's own the dragged entry is at the drop index and the
\* other entries keep their order; on its own index or without a drop index
\* the queue is unchanged.
DragStep ==
    /\ IsRearrangement(files, files')
    /\ IF dragOverIndex # NoIndex /\ dragOverIndex # dragIndex
       THEN /\ dragOverIndex + 1 \in DOMAIN files'
            /\ files'[dragOverIndex + 1] = files[dragIndex + 1]
            /\ RemoveAt(files', dragOverIndex + 1) = RemoveAt(files, dragIndex + 1)
       ELSE files' = files

\* C20 as stated: every end of a drag is a DragStep.
C20_Original ==
    [][handleDragEnd => DragStep]_vars

(* ------------------------------------------------------------------ *)
(* Claims about identity (under Spec)                                  *)
(* ------------------------------------------------------------------ *)
\* What removing the k-th file or changing its copies does, as the claim
\* states it: exactly that entry is removed, or changed, and every other entry
\* is left as it is, in its order.
OneEntryStep(k) ==
    /\ RemoveClick(k) => files' = RemoveAt(files, k)
    /\ incrementCopies(k) =>
          files' = [files EXCEPT ![k] = [files[k] EXCEPT !.copies = files[k].copies + 1]]

\* C21 as stated: the files of the queue have pairwise distinct ids, whatever
\* was uploaded, and so a removal removes exactly one entry and a change of
\* copies changes exactly one entry, the others unchanged and in their order.
C21_Original ==
    [][/\ \A i, j \in DOMAIN files : files[i].id = files[j].id => i = j
       /\ \A k \in DOMAIN files : OneEntryStep(k)]_vars

(* ------------------------------------------------------------------ *)
(* Claims about the processing state (under SpecLive and Spec)         *)
(* ------------------------------------------------------------------ *)
\* C22: when every awaited step eventually settles, an upload batch or a
\* combine that has set isProcessing sets it back: from every state in which
\* the application is processing it reaches a state in which it is not.
C22_EventuallyIdle ==
    processing.isProcessing ~> ~processing.isProcessing

\* A batch of two files that both failed has ended: the application is not
\* processing and shows the two messages.
C22_Witness ==
    /\ ~processing.isProcessing
    /\ tasks = <<>>
    /\ files = <<>>
    /\ error # NULL
    /\ Len(SplitLines(error, <<>>)) = 2

\* What a step does about the combine core, as the claim states it: a combine
\* starts on a queue that is not empty, and on that queue; no combine in flight
\* is one of an empty queue; a download is the result of a combine in flight;
\* and on an empty queue no combine starts and nothing is downloaded.
CombineCoreStep ==
    /\ CombineStarts => files # <<>> /\ tasks'[Len(tasks')].files = files
    /\ \A t \in DOMAIN tasks' : tasks'[t].kind = "combine" => tasks'[t].files # <<>>
    /\ downloaded'.tag = "file" =>
          \E t \in DOMAIN tasks : tasks[t].kind = "combine" /\ tasks[t].files # <<>>
    /\ files = <<>> => ~CombineStarts /\ downloaded' = NoDownload

\* C23: combineGCode and createCombinedZip are never invoked with an empty
\* queue, and with an empty queue there is no combine and no download: every
\* step is a CombineCoreStep.
C23_NoEmptyCombine ==
    [][CombineCoreStep]_vars

\* A queue has been combined and downloaded, then cleared: the profile is
\* confirmed and nothing is in flight, and the queue is empty.
C23_Witness ==
    /\ files = <<>>
    /\ profileConfirmed
    /\ ~processing.isProcessing
    /\ processing.progress = Whole(100)
    /\ tasks = <<>>

\* p <= q for progress values, which are fractions.
LessEq(p, q) == p[1] * q[2] <= q[1] * p[2]

NonDecreasing(values) ==
    \A k \in 1..(Len(values) - 1) : LessEq(values[k], values[k + 1])

\* The values reported while the operation was in flight: all of them while
\* it is, all but the one that ended it once it is over.
ReportedInFlight ==
    IF processing.isProcessing \/ reports = <<>> THEN reports
    ELSE SubSeq(reports, 1, Len(reports) - 1)

\* What a step does to the progress, as the claim states it. While an
\* operation is in flight the values it has reported do not decrease, and
\* neither does the progress shown from step to step. An upload shows the
\* share of the files reached so far and names, in its message, the one file
\* being processed. A combine has reported 0, 30 and 60, and its success adds
\* 90 and 100 and leaves 100. Behind the first value, 0 is reported only as
\* the last value of an operation that is over, and the progress shown falls
\* to 0 only in a step that ends an operation.
ProgressStep ==
    /\ NonDecreasing(ReportedInFlight)
    /\ processing.isProcessing /\ processing'.isProcessing =>
          LessEq(processing.progress, processing'.progress)
    /\ \A t \in DOMAIN tasks :
          tasks[t].kind = "upload" =>
              LET batch == tasks[t].selectedFiles
                  file == batch[tasks[t].i + 1]
              IN  /\ processing.isProcessing
                  /\ processing.message = <<"Processing ">> \o file.name \o <<"...">>
                  /\ processing.progress[1] * Len(batch)
                        = 100 * (tasks[t].i + 1) * processing.progress[2]
                  /\ reports[Len(reports)] = processing.progress
                  /\ Len(reports) = tasks[t].i + 2
    /\ \A t \in DOMAIN tasks :
          tasks[t].kind = "combine" =>
              /\ processing.isProcessing
              /\ processing.progress = <<60, 1>>
              /\ reports = << <<0, 1>>, <<30, 1>>, <<60, 1>> >>
    /\ downloaded'.tag = "file" =>
          /\ reports' = << <<0, 1>>, <<30, 1>>, <<60, 1>>, <<90, 1>>, <<100, 1>> >>
          /\ processing'.progress = <<100, 1>>
          /\ ~processing'.isProcessing
    /\ \A k \in 2..Len(reports) :
          reports[k] = <<0, 1>> => k = Len(reports) /\ ~processing.isProcessing
    /\ processing'.progress = <<0, 1>> /\ processing.progress # <<0, 1>> =>
          Len(tasks') < Len(tasks)

\* C24: the progress reported by an operation in flight never decreases, an
\* upload names the single file it is processing, a combine steps through 0,
\* 30, 60 and 90 and ends at 100 on success, and the progress is reset to 0
\* only when an operation ends: every step is a ProgressStep.
C24_ProgressMonotonic ==
    [][ProgressStep]_vars

\* The second file of a batch of two is being processed: the upload has
\* reported 0, 50 and 100.
C24_Witness ==
    /\ processing.isProcessing
    /\ reports = << <<0, 1>>, <<50, 1>>, <<100, 1>> >>
    /\ \E t \in DOMAIN tasks : tasks[t].kind = "upload" /\ tasks[t].i = 1

====
